---- MODULE Spec2Model ----
(***************************************************************************)
(* Core banking ledger: the ledger engine (LedgerService), the account      *)
(* manager (AccountService) and the transaction orchestrator                *)
(* (TransactionService), modelled at the service level over one database    *)
(* session, and with several requests in flight, each in a session of its   *)
(* own.  Tables are sequences of rows; a row's id is its index.             *)
(* Amounts are integers counting units of 0.0001 (NUMERIC(19,4)).           *)
(***************************************************************************)
EXTENDS Integers, Sequences, FiniteSets, TLC

VARIABLES customers, accounts, ledger_accounts, ledger_entries, transactions,
          uuid4_calls, clock, sessions

vars == <<customers, accounts, ledger_accounts, ledger_entries, transactions,
          uuid4_calls, clock, sessions>>

(***************************************************************************)
(* Bounds of the model.                                                     *)
(***************************************************************************)
\* request amounts are drawn from 0..MaxAmount (0 is what the schemas reject)
MaxAmount == 2
\* client-supplied idempotency keys "k1".."kN"
NumKeys == 2
\* client-supplied ledger transaction ids (UUIDs) for raw postings: in the
\* whole system, and where only the ledger engine runs
NumClientUuids == 1
NumLedgerUuids == 2
\* the wall clock reads 0..MaxClock
MaxClock == 1
\* requests in flight at the same time, each in a database session of its own
NumSessions == 2

(***************************************************************************)
(* Enumerations (models/enums.py) and the absent value of a nullable column.*)
(***************************************************************************)
None == -1

AccountType == {"ASSET", "LIABILITY", "EQUITY", "REVENUE", "EXPENSE"}
EntryType == {"DEBIT", "CREDIT"}
CustomerAccountType == {"CHECKING", "SAVINGS", "CREDIT", "PREPAID"}
AccountStatus == {"PENDING", "ACTIVE", "FROZEN", "BLOCKED", "CLOSED"}
TransactionType == {"DEPOSIT", "WITHDRAWAL", "TRANSFER", "REVERSAL"}
TransactionStatus == {"PENDING", "PROCESSING", "COMPLETED", "FAILED", "REVERSED"}

CASH_ACCOUNT_CODE == "BANK-CASH-001"

\* The error kinds the services raise (all ValueError in the source, told
\* apart by their message); "OK" is a normal return.
OK == "OK"

(***************************************************************************)
(* The database as one value, so that a service method is a function from   *)
(* (database, request) to (database, error, returned value).                *)
(***************************************************************************)
\* uuid4_calls counts the results uuid.uuid4() has handed out so far; it is
\* carried with the tables so that a method can mint an id and pass it on.
DB == [customers |-> customers, accounts |-> accounts,
       ledger_accounts |-> ledger_accounts, ledger_entries |-> ledger_entries,
       transactions |-> transactions, uuid4_calls |-> uuid4_calls]

EmptyDB == [customers |-> <<>>, accounts |-> <<>>, ledger_accounts |-> <<>>,
            ledger_entries |-> <<>>, transactions |-> <<>>, uuid4_calls |-> 0]

Returned(db, ret) == [db |-> db, err |-> OK, ret |-> ret]
Raised(db, err) == [db |-> db, err |-> err, ret |-> None]

Ids(table) == 1..Len(table)
Range(s) == {s[i] : i \in DOMAIN s}

RECURSIVE SumOver(_, _)
\* sum(f[x] for x in S), 0 for the empty set
SumOver(f, S) ==
    IF S = {} THEN 0
    ELSE LET x == CHOOSE y \in S : TRUE IN f[x] + SumOver(f, S \ {x})

\* A UUID: one a client sent, or one uuid.uuid4() minted (never a client's,
\* never minted twice).
ClientUuid(n) == [by |-> "client", n |-> n]
uuid4(db) == [by |-> "uuid4", n |-> db.uuid4_calls + 1]

\* datetime.utcnow()
utcnow == clock

(***************************************************************************)
(* Request schemas (pydantic): what a request object accepts at             *)
(* construction.  A currency is a 3-letter string and an amount has at most *)
(* 4 decimal places by the choice of the input sets.                        *)
(***************************************************************************)
\* LedgerEntryCreate letting an amount of 0 through
LedgerEntryCreate_zero_allowed(e) ==
    /\ e.amount >= 0
    /\ Len(e.description) >= 1
    /\ Len(e.description) <= 255

\* LedgerEntryCreate: amount > 0, 1 <= len(description) <= 255
LedgerEntryCreate(e) ==
    /\ e.amount > 0
    /\ Len(e.description) >= 1
    /\ Len(e.description) <= 255

\* PostEntriesRequest: at least two entries, each a valid LedgerEntryCreate,
\* at least one DEBIT and at least one CREDIT
PostEntriesRequest(r) ==
    /\ Len(r.entries) >= 2
    /\ \A i \in DOMAIN r.entries : LedgerEntryCreate(r.entries[i])
    /\ \E i \in DOMAIN r.entries : r.entries[i].entry_type = "DEBIT"
    /\ \E i \in DOMAIN r.entries : r.entries[i].entry_type = "CREDIT"

(***************************************************************************)
(* LedgerService                                                            *)
(***************************************************************************)
LedgerAccountByCode(db, code) ==
    {i \in Ids(db.ledger_accounts) : db.ledger_accounts[i].code = code}

\* create_account without the probe for the code
create_account_without_probe(db, request) ==
    LET account == [code |-> request.code,
                    account_type |-> request.account_type,
                    currency |-> request.currency,
                    is_active |-> TRUE]
    IN Returned([db EXCEPT !.ledger_accounts = Append(@, account)],
                Len(db.ledger_accounts) + 1)

\* request: [code, account_type, currency]
create_account(db, request) ==
    IF LedgerAccountByCode(db, request.code) # {}
    THEN Raised(db, "Conflict")
    ELSE LET account == [code |-> request.code,
                         account_type |-> request.account_type,
                         currency |-> request.currency,
                         is_active |-> TRUE]
         IN Returned([db EXCEPT !.ledger_accounts = Append(@, account)],
                     Len(db.ledger_accounts) + 1)

get_entries_by_transaction(db, transaction_id) ==
    {i \in Ids(db.ledger_entries) :
        db.ledger_entries[i].transaction_id = transaction_id}

RECURSIVE Orderings(_)
\* the sequences that list each element of S once
Orderings(S) ==
    IF S = {} THEN {<<>>}
    ELSE UNION {{<<x>> \o rest : rest \in Orderings(S \ {x})} : x \in S}

\* select ... where account_id = :id order by created_at desc.  The query
\* names no second sort key, so rows created at the same time come back in
\* an order the database chooses: the operator is the set of the results
\* the query can give.
get_entries_by_account(db, account_id) ==
    {entries \in Orderings({i \in Ids(db.ledger_entries) :
                               db.ledger_entries[i].account_id = account_id}) :
        \A i, j \in DOMAIN entries :
            i < j => db.ledger_entries[entries[i]].created_at
                         >= db.ledger_entries[entries[j]].created_at}

\* RequestTotal with the direction filter dropped
RequestTotal_unfiltered(entries, entry_type) ==
    SumOver([i \in DOMAIN entries |-> entries[i].amount], DOMAIN entries)

\* sum(e.amount for e in entries if e.entry_type == entry_type)
RequestTotal(entries, entry_type) ==
    SumOver([i \in DOMAIN entries |->
                IF entries[i].entry_type = entry_type
                THEN entries[i].amount ELSE 0],
            DOMAIN entries)

\* the rows post_entries adds, in request order, stamped with the posting
\* currency
NewEntries(request) ==
    [i \in DOMAIN request.entries |->
        [transaction_id |-> request.transaction_id,
         account_id |-> request.entries[i].account_id,
         entry_type |-> request.entries[i].entry_type,
         amount |-> request.entries[i].amount,
         currency |-> request.currency,
         description |-> request.entries[i].description,
         created_at |-> utcnow]]

\* post_entries with the balance rule left out
post_entries_no_balance_rule(db, request) ==
    LET existing == get_entries_by_transaction(db, request.transaction_id)
        account_ids == {request.entries[i].account_id : i \in DOMAIN request.entries}
        accounts_by_id == account_ids \cap Ids(db.ledger_accounts)
        missing == account_ids \ accounts_by_id
        n == Len(db.ledger_entries)
    IN IF existing # {} THEN Returned(db, existing)
       ELSE IF missing # {} THEN Raised(db, "NotFound")
       ELSE IF \E a \in accounts_by_id : ~db.ledger_accounts[a].is_active
            THEN Raised(db, "AccountInactive")
       ELSE IF \E a \in accounts_by_id :
                  db.ledger_accounts[a].currency # request.currency
            THEN Raised(db, "CurrencyMismatch")
       ELSE Returned([db EXCEPT !.ledger_entries = @ \o NewEntries(request)],
                     (n + 1)..(n + Len(request.entries)))

\* post_entries with the duplicate probe after the checks instead of before
post_entries_revalidates(db, request) ==
    LET existing == get_entries_by_transaction(db, request.transaction_id)
        account_ids == {request.entries[i].account_id : i \in DOMAIN request.entries}
        accounts_by_id == account_ids \cap Ids(db.ledger_accounts)
        missing == account_ids \ accounts_by_id
        total_debits == RequestTotal(request.entries, "DEBIT")
        total_credits == RequestTotal(request.entries, "CREDIT")
        n == Len(db.ledger_entries)
    IN IF missing # {} THEN Raised(db, "NotFound")
       ELSE IF \E a \in accounts_by_id : ~db.ledger_accounts[a].is_active
            THEN Raised(db, "AccountInactive")
       ELSE IF \E a \in accounts_by_id :
                  db.ledger_accounts[a].currency # request.currency
            THEN Raised(db, "CurrencyMismatch")
       ELSE IF total_debits # total_credits THEN Raised(db, "Unbalanced")
       ELSE IF existing # {} THEN Returned(db, existing)
       ELSE Returned([db EXCEPT !.ledger_entries = @ \o NewEntries(request)],
                     (n + 1)..(n + Len(request.entries)))

\* post_entries without the check that the accounts are active
post_entries_skips_active_check(db, request) ==
    LET existing == get_entries_by_transaction(db, request.transaction_id)
        account_ids == {request.entries[i].account_id : i \in DOMAIN request.entries}
        accounts_by_id == account_ids \cap Ids(db.ledger_accounts)
        missing == account_ids \ accounts_by_id
        total_debits == RequestTotal(request.entries, "DEBIT")
        total_credits == RequestTotal(request.entries, "CREDIT")
        n == Len(db.ledger_entries)
    IN IF existing # {} THEN Returned(db, existing)
       ELSE IF missing # {} THEN Raised(db, "NotFound")
       ELSE IF \E a \in accounts_by_id :
                  db.ledger_accounts[a].currency # request.currency
            THEN Raised(db, "CurrencyMismatch")
       ELSE IF total_debits # total_credits THEN Raised(db, "Unbalanced")
       ELSE Returned([db EXCEPT !.ledger_entries = @ \o NewEntries(request)],
                     (n + 1)..(n + Len(request.entries)))

\* post_entries comparing currencies before looking at the active flags
post_entries_currency_first(db, request) ==
    LET existing == get_entries_by_transaction(db, request.transaction_id)
        account_ids == {request.entries[i].account_id : i \in DOMAIN request.entries}
        accounts_by_id == account_ids \cap Ids(db.ledger_accounts)
        missing == account_ids \ accounts_by_id
        total_debits == RequestTotal(request.entries, "DEBIT")
        total_credits == RequestTotal(request.entries, "CREDIT")
        n == Len(db.ledger_entries)
    IN IF existing # {} THEN Returned(db, existing)
       ELSE IF missing # {} THEN Raised(db, "NotFound")
       ELSE IF \E a \in accounts_by_id :
                  db.ledger_accounts[a].currency # request.currency
            THEN Raised(db, "CurrencyMismatch")
       ELSE IF \E a \in accounts_by_id : ~db.ledger_accounts[a].is_active
            THEN Raised(db, "AccountInactive")
       ELSE IF total_debits # total_credits THEN Raised(db, "Unbalanced")
       ELSE Returned([db EXCEPT !.ledger_entries = @ \o NewEntries(request)],
                     (n + 1)..(n + Len(request.entries)))

\* post_entries adding and flushing the entries before the balance rule
post_entries_flushes_first(db, request) ==
    LET existing == get_entries_by_transaction(db, request.transaction_id)
        account_ids == {request.entries[i].account_id : i \in DOMAIN request.entries}
        accounts_by_id == account_ids \cap Ids(db.ledger_accounts)
        missing == account_ids \ accounts_by_id
        total_debits == RequestTotal(request.entries, "DEBIT")
        total_credits == RequestTotal(request.entries, "CREDIT")
        n == Len(db.ledger_entries)
    IN IF existing # {} THEN Returned(db, existing)
       ELSE IF missing # {} THEN Raised(db, "NotFound")
       ELSE IF \E a \in accounts_by_id : ~db.ledger_accounts[a].is_active
            THEN Raised(db, "AccountInactive")
       ELSE IF \E a \in accounts_by_id :
                  db.ledger_accounts[a].currency # request.currency
            THEN Raised(db, "CurrencyMismatch")
       ELSE IF total_debits # total_credits
            THEN Raised([db EXCEPT !.ledger_entries = @ \o NewEntries(request)],
                        "Unbalanced")
       ELSE Returned([db EXCEPT !.ledger_entries = @ \o NewEntries(request)],
                     (n + 1)..(n + Len(request.entries)))

\* what post_entries writes once the probe has found nothing and the
\* checks have passed: db.add(entry) for every entry, db.flush()
InsertEntries(db, request) ==
    LET n == Len(db.ledger_entries)
    IN Returned([db EXCEPT !.ledger_entries = @ \o NewEntries(request)],
                (n + 1)..(n + Len(request.entries)))

\* request: [transaction_id, currency, entries]; returns the set of entry ids
post_entries(db, request) ==
    LET existing == get_entries_by_transaction(db, request.transaction_id)
        account_ids == {request.entries[i].account_id : i \in DOMAIN request.entries}
        accounts_by_id == account_ids \cap Ids(db.ledger_accounts)
        missing == account_ids \ accounts_by_id
        total_debits == RequestTotal(request.entries, "DEBIT")
        total_credits == RequestTotal(request.entries, "CREDIT")
    IN IF existing # {} THEN Returned(db, existing)
       ELSE IF missing # {} THEN Raised(db, "NotFound")
       ELSE IF \E a \in accounts_by_id : ~db.ledger_accounts[a].is_active
            THEN Raised(db, "AccountInactive")
       ELSE IF \E a \in accounts_by_id :
                  db.ledger_accounts[a].currency # request.currency
            THEN Raised(db, "CurrencyMismatch")
       ELSE IF total_debits # total_credits THEN Raised(db, "Unbalanced")
       ELSE InsertEntries(db, request)

\* coalesce(sum(amount), 0) over the account's entries of one direction
EntrySum(db, account_id, entry_type) ==
    SumOver([i \in Ids(db.ledger_entries) |-> db.ledger_entries[i].amount],
            {i \in Ids(db.ledger_entries) :
                /\ db.ledger_entries[i].account_id = account_id
                /\ db.ledger_entries[i].entry_type = entry_type})

\* get_account_balance with EXPENSE left out of the debit-normal categories
get_account_balance_asset_only(db, account_id) ==
    IF account_id \notin Ids(db.ledger_accounts) THEN Raised(db, "NotFound")
    ELSE LET total_debits == EntrySum(db, account_id, "DEBIT")
             total_credits == EntrySum(db, account_id, "CREDIT")
         IN IF db.ledger_accounts[account_id].account_type \in {"ASSET"}
            THEN Returned(db, total_debits - total_credits)
            ELSE Returned(db, total_credits - total_debits)

get_account_balance(db, account_id) ==
    IF account_id \notin Ids(db.ledger_accounts) THEN Raised(db, "NotFound")
    ELSE LET total_debits == EntrySum(db, account_id, "DEBIT")
             total_credits == EntrySum(db, account_id, "CREDIT")
         IN IF db.ledger_accounts[account_id].account_type \in {"ASSET", "EXPENSE"}
            THEN Returned(db, total_debits - total_credits)
            ELSE Returned(db, total_credits - total_debits)

(***************************************************************************)
(* AccountService                                                           *)
(***************************************************************************)
\* the table with FROZEN -> CLOSED added
VALID_TRANSITIONS_frozen_closes ==
    [PENDING |-> {"ACTIVE", "CLOSED"},
     ACTIVE |-> {"FROZEN", "BLOCKED", "CLOSED"},
     FROZEN |-> {"ACTIVE", "BLOCKED", "CLOSED"},
     BLOCKED |-> {"CLOSED"},
     CLOSED |-> {}]

\* models/account.py: the state machine's table
VALID_TRANSITIONS ==
    [PENDING |-> {"ACTIVE", "CLOSED"},
     ACTIVE |-> {"FROZEN", "BLOCKED", "CLOSED"},
     FROZEN |-> {"ACTIVE", "BLOCKED"},
     BLOCKED |-> {"CLOSED"},
     CLOSED |-> {}]

can_transition_to(account, new_status) ==
    new_status \in VALID_TRANSITIONS[account.status]

\* the mapping with SAVINGS booked as an ASSET
ACCOUNT_TYPE_TO_LEDGER_TYPE_savings_asset ==
    [CHECKING |-> "LIABILITY", SAVINGS |-> "ASSET",
     CREDIT |-> "LIABILITY", PREPAID |-> "LIABILITY"]

ACCOUNT_TYPE_TO_LEDGER_TYPE ==
    [CHECKING |-> "LIABILITY", SAVINGS |-> "LIABILITY",
     CREDIT |-> "LIABILITY", PREPAID |-> "LIABILITY"]

\* request: [email]
create_customer(db, request) ==
    IF \E c \in Ids(db.customers) : db.customers[c].email = request.email
    THEN Raised(db, "Conflict")
    ELSE Returned([db EXCEPT !.customers =
                        Append(@, [email |-> request.email, is_active |-> TRUE])],
                  Len(db.customers) + 1)

\* f"{n:05d}"
ZeroPad5(n) ==
    IF n < 10 THEN "0000" \o ToString(n)
    ELSE IF n < 100 THEN "000" \o ToString(n)
    ELSE IF n < 1000 THEN "00" \o ToString(n)
    ELSE IF n < 10000 THEN "0" \o ToString(n)
    ELSE ToString(n)

\* f"CUST-{account_type}-{customer.id:05d}"
LedgerCode(account_type, customer_id) ==
    "CUST-" \o account_type \o "-" \o ZeroPad5(customer_id)

\* open_account deriving the ledger code from the currency as well
open_account_code_per_currency(db, request) ==
    IF request.customer_id \notin Ids(db.customers) THEN Raised(db, "NotFound")
    ELSE IF ~db.customers[request.customer_id].is_active
         THEN Raised(db, "CustomerInactive")
    ELSE LET ledger_account ==
                 create_account(db,
                     [code |-> LedgerCode(request.account_type, request.customer_id)
                                  \o "-" \o request.currency,
                      account_type |-> ACCOUNT_TYPE_TO_LEDGER_TYPE[request.account_type],
                      currency |-> request.currency])
         IN IF ledger_account.err # OK THEN Raised(db, ledger_account.err)
            ELSE LET account == [customer_id |-> request.customer_id,
                                 ledger_account_id |-> ledger_account.ret,
                                 account_type |-> request.account_type,
                                 status |-> "PENDING",
                                 currency |-> request.currency,
                                 opened_at |-> None,
                                 closed_at |-> None]
                 IN Returned([ledger_account.db EXCEPT !.accounts = Append(@, account)],
                             Len(db.accounts) + 1)

\* request: [customer_id, account_type, currency]
open_account(db, request) ==
    IF request.customer_id \notin Ids(db.customers) THEN Raised(db, "NotFound")
    ELSE IF ~db.customers[request.customer_id].is_active
         THEN Raised(db, "CustomerInactive")
    ELSE LET ledger_account ==
                 create_account(db,
                     [code |-> LedgerCode(request.account_type, request.customer_id),
                      account_type |-> ACCOUNT_TYPE_TO_LEDGER_TYPE[request.account_type],
                      currency |-> request.currency])
         IN IF ledger_account.err # OK THEN Raised(db, ledger_account.err)
            ELSE LET account == [customer_id |-> request.customer_id,
                                 ledger_account_id |-> ledger_account.ret,
                                 account_type |-> request.account_type,
                                 status |-> "PENDING",
                                 currency |-> request.currency,
                                 opened_at |-> None,
                                 closed_at |-> None]
                 IN Returned([ledger_account.db EXCEPT !.accounts = Append(@, account)],
                             Len(db.accounts) + 1)

\* change_status leaving the ledger account active when the account closes
change_status_keeps_ledger_active(db, account_id, request) ==
    IF account_id \notin Ids(db.accounts) THEN Raised(db, "NotFound")
    ELSE LET account == db.accounts[account_id] IN
         IF ~can_transition_to(account, request.new_status)
         THEN Raised(db, "IllegalTransition")
         ELSE IF request.new_status = "ACTIVE"
              THEN Returned([db EXCEPT !.accounts[account_id].status = "ACTIVE",
                                       !.accounts[account_id].opened_at = utcnow],
                            account_id)
         ELSE IF request.new_status = "CLOSED"
              THEN Returned([db EXCEPT
                                !.accounts[account_id].status = "CLOSED",
                                !.accounts[account_id].closed_at = utcnow],
                            account_id)
         ELSE Returned([db EXCEPT !.accounts[account_id].status = request.new_status],
                       account_id)

\* request: [new_status]; the reason is recorded nowhere
change_status(db, account_id, request) ==
    IF account_id \notin Ids(db.accounts) THEN Raised(db, "NotFound")
    ELSE LET account == db.accounts[account_id] IN
         IF ~can_transition_to(account, request.new_status)
         THEN Raised(db, "IllegalTransition")
         ELSE IF request.new_status = "ACTIVE"
              THEN Returned([db EXCEPT !.accounts[account_id].status = "ACTIVE",
                                       !.accounts[account_id].opened_at = utcnow],
                            account_id)
         ELSE IF request.new_status = "CLOSED"
              THEN Returned([db EXCEPT
                                !.accounts[account_id].status = "CLOSED",
                                !.accounts[account_id].closed_at = utcnow,
                                !.ledger_accounts[account.ledger_account_id].is_active = FALSE],
                            account_id)
         ELSE Returned([db EXCEPT !.accounts[account_id].status = request.new_status],
                       account_id)

\* AccountService.get_balance
get_balance(db, account_id) ==
    IF account_id \notin Ids(db.accounts) THEN Raised(db, "NotFound")
    ELSE get_account_balance(db, db.accounts[account_id].ledger_account_id)

(***************************************************************************)
(* TransactionService                                                       *)
(***************************************************************************)
\* the absent value of the nullable string column error_message
NoMessage == "<None>"

\* DepositRequest / WithdrawalRequest / TransferRequest: amount > 0,
\* len(description) <= 255 (no minimum), 1 <= len(idempotency_key) <= 100
TransactionRequest(r) ==
    /\ r.amount > 0
    /\ Len(r.description) <= 255
    /\ Len(r.idempotency_key) >= 1
    /\ Len(r.idempotency_key) <= 100

\* _check_idempotency looking among the COMPLETED rows only
_check_idempotency_completed_only(db, idempotency_key) ==
    LET found == {t \in Ids(db.transactions) :
                     /\ db.transactions[t].idempotency_key = idempotency_key
                     /\ db.transactions[t].status = "COMPLETED"}
    IN IF found = {} THEN None ELSE CHOOSE t \in found : TRUE

\* the id of the row with this key, or None
_check_idempotency(db, idempotency_key) ==
    LET found == {t \in Ids(db.transactions) :
                     db.transactions[t].idempotency_key = idempotency_key}
    IN IF found = {} THEN None ELSE CHOOSE t \in found : TRUE

\* _validate_account comparing the currency before the status
_validate_account_currency_first(db, account_id, currency) ==
    IF account_id \notin Ids(db.accounts) THEN "NotFound"
    ELSE IF db.accounts[account_id].currency # currency THEN "CurrencyMismatch"
    ELSE IF db.accounts[account_id].status # "ACTIVE" THEN "AccountInactive"
    ELSE OK

\* OK, or the error raised
_validate_account(db, account_id, currency) ==
    IF account_id \notin Ids(db.accounts) THEN "NotFound"
    ELSE IF db.accounts[account_id].status # "ACTIVE" THEN "AccountInactive"
    ELSE IF db.accounts[account_id].currency # currency THEN "CurrencyMismatch"
    ELSE OK

\* _get_or_create_cash_account looking for the code in the currency asked for
_get_or_create_cash_account_per_currency(db, currency) ==
    LET cash == {c \in LedgerAccountByCode(db, CASH_ACCOUNT_CODE) :
                    db.ledger_accounts[c].currency = currency}
    IN IF cash # {} THEN Returned(db, CHOOSE c \in cash : TRUE)
       ELSE create_account(db, [code |-> CASH_ACCOUNT_CODE,
                                account_type |-> "ASSET",
                                currency |-> currency])

\* _get_or_create_cash_account creating the cash account as a LIABILITY
_get_or_create_cash_account_liability(db, currency) ==
    LET cash == LedgerAccountByCode(db, CASH_ACCOUNT_CODE)
    IN IF cash # {} THEN Returned(db, CHOOSE c \in cash : TRUE)
       ELSE create_account(db, [code |-> CASH_ACCOUNT_CODE,
                                account_type |-> "LIABILITY",
                                currency |-> currency])

\* the cash account is looked up by its code alone
_get_or_create_cash_account(db, currency) ==
    LET cash == LedgerAccountByCode(db, CASH_ACCOUNT_CODE)
    IN IF cash # {} THEN Returned(db, CHOOSE c \in cash : TRUE)
       ELSE create_account(db, [code |-> CASH_ACCOUNT_CODE,
                                account_type |-> "ASSET",
                                currency |-> currency])

\* Transaction(...) ; db.add(txn) ; db.flush()
AddTransaction(db, txn) ==
    [db EXCEPT !.transactions = Append(@,
        [idempotency_key |-> txn.idempotency_key,
         transaction_type |-> txn.transaction_type,
         status |-> "PROCESSING",
         source_account_id |-> txn.source_account_id,
         destination_account_id |-> txn.destination_account_id,
         amount |-> txn.amount,
         currency |-> txn.currency,
         description |-> txn.description,
         reference_transaction_id |-> txn.reference_transaction_id,
         ledger_transaction_id |-> txn.ledger_transaction_id,
         error_message |-> NoMessage,
         completed_at |-> None]),
     !.uuid4_calls = @ + 1]

\* PostAndComplete setting the row COMPLETED whatever the posting did
PostAndComplete_always_completes(db, posting) ==
    LET txn_id == Len(db.transactions)
        posted == IF PostEntriesRequest(posting)
                  THEN post_entries(db, posting)
                  ELSE Raised(db, "ValidationError")
    IN Returned([posted.db EXCEPT !.transactions[txn_id].status = "COMPLETED",
                                  !.transactions[txn_id].completed_at = utcnow],
                txn_id)

\* PostAndComplete storing no message on the row when the posting fails
PostAndComplete_without_message(db, posting) ==
    LET txn_id == Len(db.transactions)
        posted == IF PostEntriesRequest(posting)
                  THEN post_entries(db, posting)
                  ELSE Raised(db, "ValidationError")
    IN IF posted.err = OK
       THEN Returned([posted.db EXCEPT !.transactions[txn_id].status = "COMPLETED",
                                       !.transactions[txn_id].completed_at = utcnow],
                     txn_id)
       ELSE Raised([db EXCEPT !.transactions[txn_id].status = "FAILED"],
                   posted.err)

\* PostAndComplete leaving the row as it is when the posting fails
PostAndComplete_leaves_processing(db, posting) ==
    LET txn_id == Len(db.transactions)
        posted == IF PostEntriesRequest(posting)
                  THEN post_entries(db, posting)
                  ELSE Raised(db, "ValidationError")
    IN IF posted.err = OK
       THEN Returned([posted.db EXCEPT !.transactions[txn_id].status = "COMPLETED",
                                       !.transactions[txn_id].completed_at = utcnow],
                     txn_id)
       ELSE Raised(db, posted.err)

\* the try block shared by deposit, withdraw and transfer: build the two
\* LedgerEntryCreate objects and the PostEntriesRequest, post them, and set
\* the row (the last one added) COMPLETED or FAILED
PostAndComplete(db, posting) ==
    LET txn_id == Len(db.transactions)
        posted == IF PostEntriesRequest(posting)
                  THEN post_entries(db, posting)
                  ELSE Raised(db, "ValidationError")
    IN IF posted.err = OK
       THEN Returned([posted.db EXCEPT !.transactions[txn_id].status = "COMPLETED",
                                       !.transactions[txn_id].completed_at = utcnow],
                     txn_id)
       ELSE Raised([db EXCEPT !.transactions[txn_id].status = "FAILED",
                              !.transactions[txn_id].error_message = posted.err],
                   posted.err)

\* deposit validating the account before probing for the key
deposit_validates_first(db, request) ==
    LET existing == _check_idempotency(db, request.idempotency_key)
        valid == _validate_account(db, request.account_id, request.currency)
    IN IF valid # OK THEN Raised(db, valid)
       ELSE IF existing # None THEN Returned(db, existing)
       ELSE LET account == db.accounts[request.account_id]
                cash == _get_or_create_cash_account(db, request.currency)
                ledger_txn_id == uuid4(cash.db)
                db1 == AddTransaction(cash.db,
                          [idempotency_key |-> request.idempotency_key,
                           transaction_type |-> "DEPOSIT",
                           source_account_id |-> None,
                           destination_account_id |-> request.account_id,
                           amount |-> request.amount,
                           currency |-> request.currency,
                           description |-> request.description,
                           reference_transaction_id |-> None,
                           ledger_transaction_id |-> ledger_txn_id])
            IN PostAndComplete(db1,
                   [transaction_id |-> ledger_txn_id,
                    currency |-> request.currency,
                    entries |-> <<[account_id |-> cash.ret,
                                   entry_type |-> "DEBIT",
                                   amount |-> request.amount,
                                   description |-> request.description],
                                  [account_id |-> account.ledger_account_id,
                                   entry_type |-> "CREDIT",
                                   amount |-> request.amount,
                                   description |-> request.description]>>])

\* what deposit writes once its checks have passed: the transactions row,
\* the posting against the cash account, the row's final status
DepositWrites(db, request, cash_id) ==
    LET account == db.accounts[request.account_id]
        ledger_txn_id == uuid4(db)
        db1 == AddTransaction(db,
                  [idempotency_key |-> request.idempotency_key,
                   transaction_type |-> "DEPOSIT",
                   source_account_id |-> None,
                   destination_account_id |-> request.account_id,
                   amount |-> request.amount,
                   currency |-> request.currency,
                   description |-> request.description,
                   reference_transaction_id |-> None,
                   ledger_transaction_id |-> ledger_txn_id])
    IN PostAndComplete(db1,
           [transaction_id |-> ledger_txn_id,
            currency |-> request.currency,
            entries |-> <<[account_id |-> cash_id,
                           entry_type |-> "DEBIT",
                           amount |-> request.amount,
                           description |-> request.description],
                          [account_id |-> account.ledger_account_id,
                           entry_type |-> "CREDIT",
                           amount |-> request.amount,
                           description |-> request.description]>>])

\* request: [account_id, amount, currency, description, idempotency_key]
deposit(db, request) ==
    LET existing == _check_idempotency(db, request.idempotency_key)
        valid == _validate_account(db, request.account_id, request.currency)
    IN IF existing # None THEN Returned(db, existing)
       ELSE IF valid # OK THEN Raised(db, valid)
       ELSE LET cash == _get_or_create_cash_account(db, request.currency)
            IN DepositWrites(cash.db, request, cash.ret)

\* WithdrawWrites reading the balance once more before it writes
WithdrawWrites_rechecks_balance(db, request, cash_id) ==
    LET account == db.accounts[request.account_id]
        balance == get_account_balance(db, account.ledger_account_id)
        ledger_txn_id == uuid4(db)
        db1 == AddTransaction(db,
                  [idempotency_key |-> request.idempotency_key,
                   transaction_type |-> "WITHDRAWAL",
                   source_account_id |-> request.account_id,
                   destination_account_id |-> None,
                   amount |-> request.amount,
                   currency |-> request.currency,
                   description |-> request.description,
                   reference_transaction_id |-> None,
                   ledger_transaction_id |-> ledger_txn_id])
    IN IF balance.ret < request.amount THEN Raised(db, "InsufficientFunds")
       ELSE PostAndComplete(db1,
           [transaction_id |-> ledger_txn_id,
            currency |-> request.currency,
            entries |-> <<[account_id |-> account.ledger_account_id,
                           entry_type |-> "DEBIT",
                           amount |-> request.amount,
                           description |-> request.description],
                          [account_id |-> cash_id,
                           entry_type |-> "CREDIT",
                           amount |-> request.amount,
                           description |-> request.description]>>])

\* what withdraw writes once its checks, the balance check last, have
\* passed: nothing after that point reads the balance
WithdrawWrites(db, request, cash_id) ==
    LET account == db.accounts[request.account_id]
        ledger_txn_id == uuid4(db)
        db1 == AddTransaction(db,
                  [idempotency_key |-> request.idempotency_key,
                   transaction_type |-> "WITHDRAWAL",
                   source_account_id |-> request.account_id,
                   destination_account_id |-> None,
                   amount |-> request.amount,
                   currency |-> request.currency,
                   description |-> request.description,
                   reference_transaction_id |-> None,
                   ledger_transaction_id |-> ledger_txn_id])
    IN PostAndComplete(db1,
           [transaction_id |-> ledger_txn_id,
            currency |-> request.currency,
            entries |-> <<[account_id |-> account.ledger_account_id,
                           entry_type |-> "DEBIT",
                           amount |-> request.amount,
                           description |-> request.description],
                          [account_id |-> cash_id,
                           entry_type |-> "CREDIT",
                           amount |-> request.amount,
                           description |-> request.description]>>])

\* request: [account_id, amount, currency, description, idempotency_key]
withdraw(db, request) ==
    LET existing == _check_idempotency(db, request.idempotency_key)
        valid == _validate_account(db, request.account_id, request.currency)
    IN IF existing # None THEN Returned(db, existing)
       ELSE IF valid # OK THEN Raised(db, valid)
       ELSE LET account == db.accounts[request.account_id]
                cash == _get_or_create_cash_account(db, request.currency)
                balance == get_account_balance(cash.db, account.ledger_account_id)
            IN IF balance.err # OK THEN Raised(cash.db, balance.err)
               ELSE IF balance.ret < request.amount
                    THEN Raised(cash.db, "InsufficientFunds")
               ELSE WithdrawWrites(cash.db, request, cash.ret)

\* transfer debiting the destination and crediting the source
transfer_wrong_way(db, request) ==
    LET existing == _check_idempotency(db, request.idempotency_key)
        valid_source ==
            _validate_account(db, request.source_account_id, request.currency)
        valid_destination ==
            _validate_account(db, request.destination_account_id, request.currency)
    IN IF existing # None THEN Returned(db, existing)
       ELSE IF request.source_account_id = request.destination_account_id
            THEN Raised(db, "SameAccount")
       ELSE IF valid_source # OK THEN Raised(db, valid_source)
       ELSE IF valid_destination # OK THEN Raised(db, valid_destination)
       ELSE LET source == db.accounts[request.source_account_id]
                destination == db.accounts[request.destination_account_id]
                balance == get_account_balance(db, source.ledger_account_id)
                ledger_txn_id == uuid4(db)
                db1 == AddTransaction(db,
                          [idempotency_key |-> request.idempotency_key,
                           transaction_type |-> "TRANSFER",
                           source_account_id |-> request.source_account_id,
                           destination_account_id |-> request.destination_account_id,
                           amount |-> request.amount,
                           currency |-> request.currency,
                           description |-> request.description,
                           reference_transaction_id |-> None,
                           ledger_transaction_id |-> ledger_txn_id])
            IN IF balance.err # OK THEN Raised(db, balance.err)
               ELSE IF balance.ret < request.amount
                    THEN Raised(db, "InsufficientFunds")
               ELSE PostAndComplete(db1,
                   [transaction_id |-> ledger_txn_id,
                    currency |-> request.currency,
                    entries |-> <<[account_id |-> destination.ledger_account_id,
                                   entry_type |-> "DEBIT",
                                   amount |-> request.amount,
                                   description |-> request.description],
                                  [account_id |-> source.ledger_account_id,
                                   entry_type |-> "CREDIT",
                                   amount |-> request.amount,
                                   description |-> request.description]>>])

\* transfer comparing source and destination after validating them
transfer_validates_first(db, request) ==
    LET existing == _check_idempotency(db, request.idempotency_key)
        valid_source ==
            _validate_account(db, request.source_account_id, request.currency)
        valid_destination ==
            _validate_account(db, request.destination_account_id, request.currency)
    IN IF existing # None THEN Returned(db, existing)
       ELSE IF valid_source # OK THEN Raised(db, valid_source)
       ELSE IF valid_destination # OK THEN Raised(db, valid_destination)
       ELSE IF request.source_account_id = request.destination_account_id
            THEN Raised(db, "SameAccount")
       ELSE LET source == db.accounts[request.source_account_id]
                destination == db.accounts[request.destination_account_id]
                balance == get_account_balance(db, source.ledger_account_id)
                ledger_txn_id == uuid4(db)
                db1 == AddTransaction(db,
                          [idempotency_key |-> request.idempotency_key,
                           transaction_type |-> "TRANSFER",
                           source_account_id |-> request.source_account_id,
                           destination_account_id |-> request.destination_account_id,
                           amount |-> request.amount,
                           currency |-> request.currency,
                           description |-> request.description,
                           reference_transaction_id |-> None,
                           ledger_transaction_id |-> ledger_txn_id])
            IN IF balance.err # OK THEN Raised(db, balance.err)
               ELSE IF balance.ret < request.amount
                    THEN Raised(db, "InsufficientFunds")
               ELSE PostAndComplete(db1,
                   [transaction_id |-> ledger_txn_id,
                    currency |-> request.currency,
                    entries |-> <<[account_id |-> source.ledger_account_id,
                                   entry_type |-> "DEBIT",
                                   amount |-> request.amount,
                                   description |-> request.description],
                                  [account_id |-> destination.ledger_account_id,
                                   entry_type |-> "CREDIT",
                                   amount |-> request.amount,
                                   description |-> request.description]>>])

\* what transfer writes once its checks, the balance check last, have
\* passed
TransferWrites(db, request) ==
    LET source == db.accounts[request.source_account_id]
        destination == db.accounts[request.destination_account_id]
        ledger_txn_id == uuid4(db)
        db1 == AddTransaction(db,
                  [idempotency_key |-> request.idempotency_key,
                   transaction_type |-> "TRANSFER",
                   source_account_id |-> request.source_account_id,
                   destination_account_id |-> request.destination_account_id,
                   amount |-> request.amount,
                   currency |-> request.currency,
                   description |-> request.description,
                   reference_transaction_id |-> None,
                   ledger_transaction_id |-> ledger_txn_id])
    IN PostAndComplete(db1,
           [transaction_id |-> ledger_txn_id,
            currency |-> request.currency,
            entries |-> <<[account_id |-> source.ledger_account_id,
                           entry_type |-> "DEBIT",
                           amount |-> request.amount,
                           description |-> request.description],
                          [account_id |-> destination.ledger_account_id,
                           entry_type |-> "CREDIT",
                           amount |-> request.amount,
                           description |-> request.description]>>])

\* request: [source_account_id, destination_account_id, amount, currency,
\*           description, idempotency_key]
transfer(db, request) ==
    LET existing == _check_idempotency(db, request.idempotency_key)
        valid_source ==
            _validate_account(db, request.source_account_id, request.currency)
        valid_destination ==
            _validate_account(db, request.destination_account_id, request.currency)
    IN IF existing # None THEN Returned(db, existing)
       ELSE IF request.source_account_id = request.destination_account_id
            THEN Raised(db, "SameAccount")
       ELSE IF valid_source # OK THEN Raised(db, valid_source)
       ELSE IF valid_destination # OK THEN Raised(db, valid_destination)
       ELSE LET source == db.accounts[request.source_account_id]
                balance == get_account_balance(db, source.ledger_account_id)
            IN IF balance.err # OK THEN Raised(db, balance.err)
               ELSE IF balance.ret < request.amount
                    THEN Raised(db, "InsufficientFunds")
               ELSE TransferWrites(db, request)

\* a set of row ids as the sequence a query returns them in (by id)
RECURSIVE InIdOrder(_)
InIdOrder(S) ==
    IF S = {} THEN <<>>
    ELSE LET m == CHOOSE x \in S : \A y \in S : x <= y
         IN <<m>> \o InIdOrder(S \ {m})

\* ReversalEntry keeping the direction of the original entry
ReversalEntry_same_direction(entry) ==
    [account_id |-> entry.account_id,
     entry_type |-> entry.entry_type,
     amount |-> entry.amount,
     description |-> "Reversal: " \o entry.description]

\* the mirror of one original entry: same account and amount, direction
\* swapped, description prefixed
ReversalEntry(entry) ==
    [account_id |-> entry.account_id,
     entry_type |-> IF entry.entry_type = "DEBIT" THEN "CREDIT" ELSE "DEBIT",
     amount |-> entry.amount,
     description |-> "Reversal: " \o entry.description]

\* reverse refusing only the originals that are already REVERSED
reverse_unless_reversed(db, transaction_id, idempotency_key) ==
    LET existing == _check_idempotency(db, idempotency_key)
    IN IF existing # None THEN Returned(db, existing)
       ELSE IF transaction_id \notin Ids(db.transactions) THEN Raised(db, "NotFound")
       ELSE LET original == db.transactions[transaction_id] IN
            IF original.status = "REVERSED" THEN Raised(db, "NotReversible")
            ELSE LET original_entries ==
                         InIdOrder(get_entries_by_transaction(
                                       db, original.ledger_transaction_id))
                     reversal_ledger_txn_id == uuid4(db)
                     reversal_entries ==
                         [i \in DOMAIN original_entries |->
                             ReversalEntry(db.ledger_entries[original_entries[i]])]
                     db1 == AddTransaction(db,
                               [idempotency_key |-> idempotency_key,
                                transaction_type |-> "REVERSAL",
                                source_account_id |-> original.source_account_id,
                                destination_account_id |-> original.destination_account_id,
                                amount |-> original.amount,
                                currency |-> original.currency,
                                description |-> "Reversal of transaction "
                                                   \o ToString(transaction_id),
                                reference_transaction_id |-> transaction_id,
                                ledger_transaction_id |-> reversal_ledger_txn_id])
                     done == PostAndComplete(db1,
                                [transaction_id |-> reversal_ledger_txn_id,
                                 currency |-> original.currency,
                                 entries |-> reversal_entries])
                 IN IF \E i \in DOMAIN reversal_entries :
                           ~LedgerEntryCreate(reversal_entries[i])
                    THEN Raised(db, "ValidationError")
                    ELSE IF done.err # OK THEN done
                    ELSE Returned([done.db EXCEPT
                                      !.transactions[transaction_id].status = "REVERSED"],
                                  done.ret)

\* reverse also rewriting the description of the original's entries
reverse_marks_original(db, transaction_id, idempotency_key) ==
    LET existing == _check_idempotency(db, idempotency_key)
    IN IF existing # None THEN Returned(db, existing)
       ELSE IF transaction_id \notin Ids(db.transactions) THEN Raised(db, "NotFound")
       ELSE LET original == db.transactions[transaction_id] IN
            IF original.status # "COMPLETED" THEN Raised(db, "NotReversible")
            ELSE IF original.status = "REVERSED" THEN Raised(db, "NotReversible")
            ELSE LET original_entries ==
                         InIdOrder(get_entries_by_transaction(
                                       db, original.ledger_transaction_id))
                     reversal_ledger_txn_id == uuid4(db)
                     reversal_entries ==
                         [i \in DOMAIN original_entries |->
                             ReversalEntry(db.ledger_entries[original_entries[i]])]
                     db1 == AddTransaction(db,
                               [idempotency_key |-> idempotency_key,
                                transaction_type |-> "REVERSAL",
                                source_account_id |-> original.source_account_id,
                                destination_account_id |-> original.destination_account_id,
                                amount |-> original.amount,
                                currency |-> original.currency,
                                description |-> "Reversal of transaction "
                                                   \o ToString(transaction_id),
                                reference_transaction_id |-> transaction_id,
                                ledger_transaction_id |-> reversal_ledger_txn_id])
                     done == PostAndComplete(db1,
                                [transaction_id |-> reversal_ledger_txn_id,
                                 currency |-> original.currency,
                                 entries |-> reversal_entries])
                 IN IF \E i \in DOMAIN reversal_entries :
                           ~LedgerEntryCreate(reversal_entries[i])
                    THEN Raised(db, "ValidationError")
                    ELSE IF done.err # OK THEN done
                    ELSE Returned([done.db EXCEPT
                                      !.transactions[transaction_id].status = "REVERSED",
                                      !.ledger_entries =
                                          [e \in DOMAIN @ |->
                                              IF @[e].transaction_id
                                                     = original.ledger_transaction_id
                                              THEN [@[e] EXCEPT !.description =
                                                                    "Reversed"]
                                              ELSE @[e]]],
                                  done.ret)

\* reverse also pointing the original to its reversal
reverse_links_original(db, transaction_id, idempotency_key) ==
    LET existing == _check_idempotency(db, idempotency_key)
    IN IF existing # None THEN Returned(db, existing)
       ELSE IF transaction_id \notin Ids(db.transactions) THEN Raised(db, "NotFound")
       ELSE LET original == db.transactions[transaction_id] IN
            IF original.status # "COMPLETED" THEN Raised(db, "NotReversible")
            ELSE IF original.status = "REVERSED" THEN Raised(db, "NotReversible")
            ELSE LET original_entries ==
                         InIdOrder(get_entries_by_transaction(
                                       db, original.ledger_transaction_id))
                     reversal_ledger_txn_id == uuid4(db)
                     reversal_entries ==
                         [i \in DOMAIN original_entries |->
                             ReversalEntry(db.ledger_entries[original_entries[i]])]
                     db1 == AddTransaction(db,
                               [idempotency_key |-> idempotency_key,
                                transaction_type |-> "REVERSAL",
                                source_account_id |-> original.source_account_id,
                                destination_account_id |-> original.destination_account_id,
                                amount |-> original.amount,
                                currency |-> original.currency,
                                description |-> "Reversal of transaction "
                                                   \o ToString(transaction_id),
                                reference_transaction_id |-> transaction_id,
                                ledger_transaction_id |-> reversal_ledger_txn_id])
                     done == PostAndComplete(db1,
                                [transaction_id |-> reversal_ledger_txn_id,
                                 currency |-> original.currency,
                                 entries |-> reversal_entries])
                 IN IF \E i \in DOMAIN reversal_entries :
                           ~LedgerEntryCreate(reversal_entries[i])
                    THEN Raised(db, "ValidationError")
                    ELSE IF done.err # OK THEN done
                    ELSE Returned([done.db EXCEPT
                                      !.transactions[transaction_id].status = "REVERSED",
                                      !.transactions[transaction_id].reference_transaction_id
                                          = done.ret],
                                  done.ret)

\* what reverse writes once the original has been found COMPLETED: the
\* REVERSAL row, the mirrored posting, the row's final status and the
\* original's; raises before writing when a mirrored entry is refused
ReverseWrites(db, transaction_id, idempotency_key) ==
    LET original == db.transactions[transaction_id]
        original_entries ==
            InIdOrder(get_entries_by_transaction(
                          db, original.ledger_transaction_id))
        reversal_ledger_txn_id == uuid4(db)
        reversal_entries ==
            [i \in DOMAIN original_entries |->
                ReversalEntry(db.ledger_entries[original_entries[i]])]
        db1 == AddTransaction(db,
                  [idempotency_key |-> idempotency_key,
                   transaction_type |-> "REVERSAL",
                   source_account_id |-> original.source_account_id,
                   destination_account_id |-> original.destination_account_id,
                   amount |-> original.amount,
                   currency |-> original.currency,
                   description |-> "Reversal of transaction "
                                      \o ToString(transaction_id),
                   reference_transaction_id |-> transaction_id,
                   ledger_transaction_id |-> reversal_ledger_txn_id])
        done == PostAndComplete(db1,
                   [transaction_id |-> reversal_ledger_txn_id,
                    currency |-> original.currency,
                    entries |-> reversal_entries])
    IN IF \E i \in DOMAIN reversal_entries :
              ~LedgerEntryCreate(reversal_entries[i])
       THEN Raised(db, "ValidationError")
       ELSE IF done.err # OK THEN done
       ELSE Returned([done.db EXCEPT
                         !.transactions[transaction_id].status = "REVERSED"],
                     done.ret)

reverse(db, transaction_id, idempotency_key) ==
    LET existing == _check_idempotency(db, idempotency_key)
    IN IF existing # None THEN Returned(db, existing)
       ELSE IF transaction_id \notin Ids(db.transactions) THEN Raised(db, "NotFound")
       ELSE LET original == db.transactions[transaction_id] IN
            IF original.status # "COMPLETED" THEN Raised(db, "NotReversible")
            ELSE IF original.status = "REVERSED" THEN Raised(db, "NotReversible")
            ELSE ReverseWrites(db, transaction_id, idempotency_key)

(***************************************************************************)
(* The HTTP adapter (api/): each request runs a service call in a session   *)
(* of its own on the committed database, commits when the call returns and  *)
(* rolls back when it raises ValueError.  db is the committed database and  *)
(* out the outcome of the service call in the request's session.            *)
(***************************************************************************)
\* the endpoint committing whether the call returned or raised
commit_or_rollback_commits_anyway(db, out, success) ==
    IF out.err = OK THEN [db |-> out.db, status_code |-> success]
    ELSE [db |-> out.db, status_code |-> 400]

\* try: ...; db.commit(); return / except ValueError: db.rollback(); 400
commit_or_rollback(db, out, success) ==
    IF out.err = OK THEN [db |-> out.db, status_code |-> success]
    ELSE [db |-> db, status_code |-> 400]

\* a body its schema rejects never reaches the endpoint
Unprocessable(db) == [db |-> db, status_code |-> 422]

api_deposit(db, request) ==
    IF ~TransactionRequest(request) THEN Unprocessable(db)
    ELSE commit_or_rollback(db, deposit(db, request), 201)

api_withdraw(db, request) ==
    IF ~TransactionRequest(request) THEN Unprocessable(db)
    ELSE commit_or_rollback(db, withdraw(db, request), 201)

api_transfer(db, request) ==
    IF ~TransactionRequest(request) THEN Unprocessable(db)
    ELSE commit_or_rollback(db, transfer(db, request), 201)

api_reverse_transaction(db, transaction_id, idempotency_key) ==
    commit_or_rollback(db, reverse(db, transaction_id, idempotency_key), 201)

api_change_account_status(db, account_id, request) ==
    commit_or_rollback(db, change_status(db, account_id, request), 200)

\* api/ledger.py
api_post_entries(db, request) ==
    IF ~PostEntriesRequest(request) THEN Unprocessable(db)
    ELSE commit_or_rollback(db, post_entries(db, request), 201)

\* the transactions table without its unique index on idempotency_key
UniqueViolation_no_index(db, idempotency_key) == FALSE

\* models/transaction.py: idempotency_key is unique, so the INSERT of a row
\* whose key a committed row carries raises IntegrityError, which is no
\* ValueError: the endpoint does not catch it, the response is a 500 and
\* get_db closes the session, discarding what it wrote
UniqueViolation(db, idempotency_key) ==
    _check_idempotency(db, idempotency_key) # None

\* the service method an endpoint calls
Call(op, db, request) ==
    CASE op = "deposit" -> deposit(db, request)
      [] op = "withdraw" -> withdraw(db, request)
      [] op = "transfer" -> transfer(db, request)
      [] op = "reverse" -> reverse(db, request.transaction_id,
                                   request.idempotency_key)

\* what the method writes once its checks have passed
Writes(op, db, request) ==
    LET cash == _get_or_create_cash_account(db, request.currency) IN
    CASE op = "deposit" -> DepositWrites(cash.db, request, cash.ret)
      [] op = "withdraw" -> WithdrawWrites(cash.db, request, cash.ret)
      [] op = "transfer" -> TransferWrites(db, request)
      [] op = "reverse" -> ReverseWrites(db, request.transaction_id,
                                         request.idempotency_key)

(***************************************************************************)
(* The requests clients send.  A specification below draws its requests     *)
(* from these sets, the wide ones or narrower ones.                         *)
(***************************************************************************)
Emails == {"alice@x"}
Currencies == {"USD", "EUR"}
ProductTypes == {"CHECKING", "SAVINGS"}
\* DepositRequest and its siblings accept an empty description
Descriptions == {"", "Cash"}
\* 0 is the amount the schemas reject
Amounts == 0..MaxAmount
IdempotencyKeys == {"k" \o ToString(i) : i \in 1..NumKeys}

\* an id of every row of the table, and one id that is not there
IdsOrMissing(table) == 1..(Len(table) + 1)

\* ledger transaction ids a client can send: n of its own, or one it has
\* read from the entry log
KnownUuids(n) ==
    {ClientUuid(i) : i \in 1..n}
        \cup {ledger_entries[i].transaction_id : i \in Ids(ledger_entries)}

CustomerCreates == [email : Emails]

AccountOpens ==
    [customer_id : IdsOrMissing(customers), account_type : ProductTypes,
     currency : Currencies]

AccountStatusUpdates == [new_status : AccountStatus]

LedgerAccountCreates(codes, types) ==
    [code : codes, account_type : types, currency : Currencies]

PostedEntries(amounts) ==
    [account_id : IdsOrMissing(ledger_accounts), entry_type : EntryType,
     amount : amounts, description : {"Posting"}]

\* postings of two entries (a DEBIT of any amount, then any entry; or two
\* CREDITs) and of three (a DEBIT of 2 split over two CREDITs of 1)
PostEntriesRequests ==
    {[transaction_id |-> u, currency |-> c, entries |-> <<d, e>>] :
        u \in KnownUuids(NumLedgerUuids), c \in Currencies,
        d \in {x \in PostedEntries(Amounts) : x.entry_type = "DEBIT"},
        e \in PostedEntries(1..MaxAmount)}
    \cup
    {[transaction_id |-> u, currency |-> c, entries |-> <<e, e>>] :
        u \in KnownUuids(NumLedgerUuids), c \in Currencies,
        e \in {x \in PostedEntries({1}) : x.entry_type = "CREDIT"}}
    \cup
    {[transaction_id |-> u, currency |-> c, entries |-> <<d, e, f>>] :
        u \in KnownUuids(NumLedgerUuids), c \in Currencies,
        d \in {x \in PostedEntries({2}) : x.entry_type = "DEBIT"},
        e \in {x \in PostedEntries({1}) : x.entry_type = "CREDIT"},
        f \in {x \in PostedEntries({1}) : x.entry_type = "CREDIT"}}

\* postings of a DEBIT of 1 and a CREDIT on another account
JournalRequests ==
    {r \in {[transaction_id |-> u, currency |-> c,
             entries |-> <<[account_id |-> x, entry_type |-> "DEBIT",
                            amount |-> 1, description |-> "Posting"],
                           [account_id |-> y, entry_type |-> "CREDIT",
                            amount |-> m, description |-> "Posting"]>>] :
                u \in KnownUuids(NumClientUuids), c \in Currencies,
                x \in IdsOrMissing(ledger_accounts),
                y \in IdsOrMissing(ledger_accounts), m \in 1..MaxAmount} :
        r.entries[1].account_id # r.entries[2].account_id}

DepositRequestsOf(amounts, descriptions) ==
    [account_id : IdsOrMissing(accounts), amount : amounts,
     currency : Currencies, description : descriptions,
     idempotency_key : IdempotencyKeys]

TransferRequestsOf(amounts, descriptions) ==
    [source_account_id : IdsOrMissing(accounts),
     destination_account_id : IdsOrMissing(accounts), amount : amounts,
     currency : Currencies, description : descriptions,
     idempotency_key : IdempotencyKeys]

DepositRequests == DepositRequestsOf(Amounts, Descriptions)
WithdrawalRequests == DepositRequests
TransferRequests == TransferRequestsOf(Amounts, Descriptions)
ReverseRequests ==
    [transaction_id : IdsOrMissing(transactions),
     idempotency_key : IdempotencyKeys]

(***************************************************************************)
(* Actions: one call of a service method on the session.  A call that       *)
(* raises keeps what it had flushed before raising (the services neither    *)
(* commit nor roll back).                                                   *)
(***************************************************************************)
\* no request is in flight: a session is where its request has got to
\* (pc), the operation and request it carries, and the status code of the
\* last response it gave (0 before the first)
Idle(status_code) ==
    [pc |-> "idle", op |-> "none", request |-> <<>>, status_code |-> status_code]

NoSessions == [s \in 1..NumSessions |-> Idle(0)]

\* the database is committed as db
Committed(db) ==
    /\ customers' = db.customers
    /\ accounts' = db.accounts
    /\ ledger_accounts' = db.ledger_accounts
    /\ ledger_entries' = db.ledger_entries
    /\ transactions' = db.transactions
    /\ uuid4_calls' = db.uuid4_calls

\* one call on the only session, from its first statement to its last
Becomes(db) ==
    /\ Committed(db)
    /\ clock' = clock
    /\ sessions' = sessions

Holds(db) ==
    /\ customers = db.customers
    /\ accounts = db.accounts
    /\ ledger_accounts = db.ledger_accounts
    /\ ledger_entries = db.ledger_entries
    /\ transactions = db.transactions
    /\ uuid4_calls = db.uuid4_calls
    /\ sessions = NoSessions

\* time passes
Tick ==
    /\ clock < MaxClock
    /\ clock' = clock + 1
    /\ UNCHANGED <<customers, accounts, ledger_accounts, ledger_entries,
                   transactions, uuid4_calls, sessions>>

CreateCustomer == \E r \in CustomerCreates : Becomes(create_customer(DB, r).db)

OpenAccount == \E r \in AccountOpens : Becomes(open_account(DB, r).db)

ChangeStatus(updates) ==
    \E a \in IdsOrMissing(accounts), r \in updates :
        Becomes(change_status(DB, a, r).db)

CreateLedgerAccount(requests) ==
    \E r \in requests : Becomes(create_account(DB, r).db)

\* a request its schema rejects never reaches the service
PostEntries(requests) ==
    \E r \in requests :
        IF PostEntriesRequest(r) THEN Becomes(post_entries(DB, r).db)
        ELSE UNCHANGED vars

Deposit(requests) ==
    \E r \in requests :
        IF TransactionRequest(r) THEN Becomes(deposit(DB, r).db)
        ELSE UNCHANGED vars

Withdraw(requests) ==
    \E r \in requests :
        IF TransactionRequest(r) THEN Becomes(withdraw(DB, r).db)
        ELSE UNCHANGED vars

Transfer(requests) ==
    \E r \in requests :
        IF TransactionRequest(r) THEN Becomes(transfer(DB, r).db)
        ELSE UNCHANGED vars

ReverseOf(requests) ==
    \E r \in requests :
        Becomes(reverse(DB, r.transaction_id, r.idempotency_key).db)

Reverse == ReverseOf(ReverseRequests)

(***************************************************************************)
(* Spec: the whole system.  The bank has onboarded one customer with a      *)
(* CHECKING and a SAVINGS account in USD (the services' own result on the   *)
(* empty database); every operation is then called in any order.            *)
(***************************************************************************)
Onboarded ==
    LET c == create_customer(EmptyDB, [email |-> "alice@x"]).db
        a == open_account(c, [customer_id |-> 1, account_type |-> "CHECKING",
                              currency |-> "USD"]).db
    IN open_account(a, [customer_id |-> 1, account_type |-> "SAVINGS",
                        currency |-> "USD"]).db

Init == Holds(Onboarded) /\ clock = 0

Next ==
    \/ CreateCustomer
    \/ OpenAccount
    \/ ChangeStatus(AccountStatusUpdates)
    \/ CreateLedgerAccount(LedgerAccountCreates({CASH_ACCOUNT_CODE}, {"ASSET"}))
    \/ PostEntries(JournalRequests)
    \/ Deposit(DepositRequestsOf(1..MaxAmount, {"Cash"}))
    \/ Withdraw(DepositRequestsOf(1..MaxAmount, {"Cash"}))
    \/ Transfer(TransferRequestsOf(1..MaxAmount, {"Cash"}))
    \/ Reverse

Spec == Init /\ [][Next]_vars

(***************************************************************************)
(* SpecBank: the orchestrator and the account state machine, with every     *)
(* request the schemas let through or reject, and the cash account also     *)
(* created through the ledger API; no raw postings.                         *)
(***************************************************************************)
NextBank ==
    \/ ChangeStatus(AccountStatusUpdates)
    \/ CreateLedgerAccount(
           LedgerAccountCreates({CASH_ACCOUNT_CODE}, {"ASSET", "LIABILITY"}))
    \/ Deposit(DepositRequests)
    \/ Withdraw(WithdrawalRequests)
    \/ Transfer(TransferRequests)
    \/ Reverse

SpecBank == Init /\ [][NextBank]_vars

(***************************************************************************)
(* SpecLedger: the ledger engine.  One customer account exists (closing it  *)
(* is the only way a ledger account becomes inactive); clients create a     *)
(* general-ledger account of any category and post entries.                 *)
(***************************************************************************)
OneAccount ==
    LET c == create_customer(EmptyDB, [email |-> "alice@x"]).db
    IN open_account(c, [customer_id |-> 1, account_type |-> "CHECKING",
                        currency |-> "USD"]).db

InitLedger == Holds(OneAccount) /\ clock = 0

NextLedger ==
    \/ ChangeStatus([new_status : {"CLOSED"}])
    \/ CreateLedgerAccount(LedgerAccountCreates({"GL-100"}, AccountType))
    \/ PostEntries(PostEntriesRequests)

SpecLedger == InitLedger /\ [][NextLedger]_vars

(***************************************************************************)
(* SpecAccounts: the account manager from the empty database, with the      *)
(* clock running.                                                           *)
(***************************************************************************)
InitAccounts == Holds(EmptyDB) /\ clock = 0

NextAccounts ==
    \/ Tick
    \/ CreateCustomer
    \/ OpenAccount
    \/ ChangeStatus(AccountStatusUpdates)

SpecAccounts == InitAccounts /\ [][NextAccounts]_vars

(***************************************************************************)
(* SpecReversal: deposits and their reversals on one ACTIVE account that    *)
(* may be closed, with two idempotency keys more than elsewhere, so that    *)
(* after a reversal and a failed call a further reverse can be asked for.   *)
(***************************************************************************)
ReversalKeys == {"k" \o ToString(i) : i \in 1..(NumKeys + 2)}

ReversalDeposits ==
    {[r EXCEPT !.idempotency_key = k] :
        r \in {x \in DepositRequestsOf({1}, Descriptions) : x.currency = "USD"},
        k \in ReversalKeys}

ReversalRequests ==
    [transaction_id : IdsOrMissing(transactions), idempotency_key : ReversalKeys]

ActiveAccount == change_status(OneAccount, 1, [new_status |-> "ACTIVE"]).db

InitReversal == clock = 0 /\ Holds(ActiveAccount)

NextReversal ==
    \/ ChangeStatus([new_status : {"CLOSED"}])
    \/ Deposit(ReversalDeposits)
    \/ ReverseOf(ReversalRequests)

SpecReversal == InitReversal /\ [][NextReversal]_vars

(***************************************************************************)
(* SpecCash: one customer with an ACTIVE account in each currency.  Cash is *)
(* deposited and withdrawn; a general-ledger account and a raw posting let  *)
(* an account be funded without the cash account.                           *)
(***************************************************************************)
TwoCurrencies ==
    LET c == create_customer(EmptyDB, [email |-> "alice@x"]).db
        a == open_account(c, [customer_id |-> 1, account_type |-> "CHECKING",
                              currency |-> "USD"]).db
        b == open_account(a, [customer_id |-> 1, account_type |-> "SAVINGS",
                              currency |-> "EUR"]).db
        d == change_status(b, 1, [new_status |-> "ACTIVE"]).db
    IN change_status(d, 2, [new_status |-> "ACTIVE"]).db

InitCash == clock = 0 /\ Holds(TwoCurrencies)

NextCash ==
    \/ CreateLedgerAccount(LedgerAccountCreates({"GL-100"}, {"ASSET"}))
    \/ PostEntries(JournalRequests)
    \/ Deposit(DepositRequestsOf(1..MaxAmount, {"Cash"}))
    \/ Withdraw(DepositRequestsOf(1..MaxAmount, {"Cash"}))

SpecCash == InitCash /\ [][NextCash]_vars

(***************************************************************************)
(* SpecHttp: the transaction and account-status endpoints, one request      *)
(* after another; the variables hold the committed database.                *)
(***************************************************************************)
ApiChangeStatus ==
    \E a \in IdsOrMissing(accounts), r \in AccountStatusUpdates :
        Becomes(api_change_account_status(DB, a, r).db)

ApiDeposit == \E r \in DepositRequests : Becomes(api_deposit(DB, r).db)

ApiWithdraw == \E r \in WithdrawalRequests : Becomes(api_withdraw(DB, r).db)

ApiTransfer == \E r \in TransferRequests : Becomes(api_transfer(DB, r).db)

ApiReverse ==
    \E r \in ReverseRequests :
        Becomes(api_reverse_transaction(DB, r.transaction_id,
                                        r.idempotency_key).db)

NextHttp ==
    \/ ApiChangeStatus
    \/ ApiDeposit
    \/ ApiWithdraw
    \/ ApiTransfer
    \/ ApiReverse

SpecHttp == Init /\ [][NextHttp]_vars

(***************************************************************************)
(* SpecPosting: request bodies of every shape, well-formed or not, sent to  *)
(* the posting and the transaction endpoints: amounts below, at and above   *)
(* zero, postings of one entry and of two in any directions.                *)
(***************************************************************************)
AnyAmounts == (0 - 1)..MaxAmount

ShapedEntries ==
    [account_id : Ids(ledger_accounts), entry_type : EntryType,
     amount : (0 - 1)..1, description : {"Posting"}]

ShapedPostings ==
    {[transaction_id |-> u, currency |-> "USD", entries |-> <<e>>] :
        u \in KnownUuids(NumLedgerUuids), e \in ShapedEntries}
    \cup
    {[transaction_id |-> u, currency |-> "USD", entries |-> <<d, e>>] :
        u \in KnownUuids(NumLedgerUuids), d \in ShapedEntries,
        e \in ShapedEntries}

ShapedDeposits ==
    {r \in DepositRequestsOf(AnyAmounts, {"Cash"}) : r.currency = "USD"}

ShapedTransfers ==
    {r \in TransferRequestsOf(AnyAmounts, {"Cash"}) : r.currency = "USD"}

ApiPostEntries ==
    \E r \in ShapedPostings : Becomes(api_post_entries(DB, r).db)

NextPosting ==
    \/ ApiPostEntries
    \/ \E r \in ShapedDeposits : Becomes(api_deposit(DB, r).db)
    \/ \E r \in ShapedDeposits : Becomes(api_withdraw(DB, r).db)

SpecPosting == InitReversal /\ [][NextPosting]_vars

(***************************************************************************)
(* SpecEntries: deposits and their reversals on one ACTIVE account while   *)
(* the clock runs, so that entries carry different and equal creation       *)
(* times.                                                                   *)
(***************************************************************************)
NextEntries ==
    \/ Tick
    \/ Deposit(ReversalDeposits)
    \/ ReverseOf(ReversalRequests)

SpecEntries == InitReversal /\ [][NextEntries]_vars

(***************************************************************************)
(* SpecRace: requests in flight at the same time against one database, at   *)
(* its default isolation level (READ COMMITTED): a statement reads what is  *)
(* committed when it runs, a session's writes are seen by the others only   *)
(* once it commits.  A request takes three steps: its reads (the probe for  *)
(* the key, the validation of the accounts, the balance check); the INSERT  *)
(* of its transactions row, which waits while another session holds an      *)
(* uncommitted row with the same key; and the posting, the final status and *)
(* the endpoint's commit or rollback.  The bank starts with two ACTIVE       *)
(* accounts, the first holding MaxAmount, and with its cash account.        *)
(***************************************************************************)
Funded ==
    LET a == change_status(Onboarded, 1, [new_status |-> "ACTIVE"]).db
        b == change_status(a, 2, [new_status |-> "ACTIVE"]).db
    IN deposit(b, [account_id |-> 1, amount |-> MaxAmount, currency |-> "USD",
                   description |-> "Cash", idempotency_key |-> "opening"]).db

InitRace == clock = 0 /\ Holds(Funded)

RaceWithdrawals ==
    {r \in DepositRequestsOf(1..MaxAmount, {"Cash"}) :
        r.account_id = 1 /\ r.currency = "USD"}

RaceTransfers ==
    {r \in TransferRequestsOf(1..MaxAmount, {"Cash"}) :
        /\ r.source_account_id = 1 /\ r.destination_account_id = 2
        /\ r.currency = "USD"}

\* a deposit in EUR fails the validation of the account; one with an empty
\* description is refused by the ledger after its row has been written
RaceDeposits ==
    {r \in DepositRequestsOf({1}, Descriptions) : r.account_id = 1}

\* the method runs up to its first write.  When it returns or raises
\* before writing, the request is over; otherwise its checks have passed.
Begin(s, op, request) ==
    /\ sessions[s].pc = "idle"
    /\ LET out == Call(op, DB, request)
           response == commit_or_rollback(DB, out, 201)
       IN IF Len(out.db.transactions) = Len(transactions)
          THEN /\ Committed(response.db)
               /\ sessions' = [sessions EXCEPT ![s] = Idle(response.status_code)]
          ELSE /\ Committed(DB)
               /\ sessions' = [sessions EXCEPT ![s] =
                                  [pc |-> "checked", op |-> op,
                                   request |-> request, status_code |-> 0]]
    /\ clock' = clock

BeginDeposit == \E s \in 1..NumSessions, r \in RaceDeposits : Begin(s, "deposit", r)

BeginWithdraw ==
    \E s \in 1..NumSessions, r \in RaceWithdrawals : Begin(s, "withdraw", r)

BeginTransfer ==
    \E s \in 1..NumSessions, r \in RaceTransfers : Begin(s, "transfer", r)

\* db.add(txn); db.flush()
InsertRow ==
    \E s \in 1..NumSessions :
        LET key == sessions[s].request.idempotency_key IN
        /\ sessions[s].pc = "checked"
        /\ \A o \in 1..NumSessions \ {s} :
              ~(/\ sessions[o].pc = "inserted"
                /\ sessions[o].request.idempotency_key = key)
        /\ sessions' = [sessions EXCEPT ![s] =
                           IF UniqueViolation(DB, key) THEN Idle(500)
                           ELSE [@ EXCEPT !.pc = "inserted"]]
        /\ Committed(DB)
        /\ clock' = clock

\* the posting, the row's final status, and the endpoint's commit; when
\* the ledger refuses the posting the method raises and the endpoint rolls
\* back
Finish ==
    \E s \in 1..NumSessions :
        /\ sessions[s].pc = "inserted"
        /\ LET out == Writes(sessions[s].op, DB, sessions[s].request)
               response == commit_or_rollback(DB, out, 201)
           IN /\ Committed(response.db)
              /\ sessions' = [sessions EXCEPT ![s] = Idle(response.status_code)]
        /\ clock' = clock

NextRace ==
    \/ BeginDeposit
    \/ BeginWithdraw
    \/ BeginTransfer
    \/ InsertRow
    \/ Finish

SpecRace == InitRace /\ [][NextRace]_vars

(***************************************************************************)
(* SpecPostingRace: PostEntries requests in flight at the same time, each   *)
(* in a session of its own, against the bank of SpecRace.  A request takes  *)
(* two steps: its reads (the probe for the transaction id, the accounts,    *)
(* the totals), then the INSERT of its entries and the endpoint's commit.   *)
(* ledger_entries.transaction_id is indexed but not unique, so no INSERT    *)
(* waits for or is refused because of another session's entries.            *)
(***************************************************************************)
\* post_entries runs up to its first write
BeginPost ==
    \E s \in 1..NumSessions, r \in JournalRequests :
        /\ sessions[s].pc = "idle"
        /\ LET out == post_entries(DB, r)
               response == commit_or_rollback(DB, out, 201)
           IN IF Len(out.db.ledger_entries) = Len(ledger_entries)
              THEN /\ Committed(response.db)
                   /\ sessions' = [sessions EXCEPT ![s] = Idle(response.status_code)]
              ELSE /\ Committed(DB)
                   /\ sessions' = [sessions EXCEPT ![s] =
                                      [pc |-> "probed", op |-> "post_entries",
                                       request |-> r, status_code |-> 0]]
        /\ clock' = clock

\* db.add(entry) for each entry, db.flush(), and the endpoint's db.commit()
FinishPost ==
    \E s \in 1..NumSessions :
        /\ sessions[s].pc = "probed"
        /\ LET out == InsertEntries(DB, sessions[s].request)
               response == commit_or_rollback(DB, out, 201)
           IN /\ Committed(response.db)
              /\ sessions' = [sessions EXCEPT ![s] = Idle(response.status_code)]
        /\ clock' = clock

NextPostingRace ==
    \/ BeginPost
    \/ FinishPost

SpecPostingRace == InitRace /\ [][NextPostingRace]_vars

(***************************************************************************)
(* SpecReverseRace: reverse requests in flight at the same time, each in a  *)
(* session of its own as in SpecRace, beside deposits that give them more   *)
(* to reverse.  The reads of a reverse are the probe for its key, the load  *)
(* of the original and the test of its status; the UPDATE that sets the     *)
(* original REVERSED is part of its writes, and under READ COMMITTED it     *)
(* goes through whatever status another session has committed meanwhile.    *)
(***************************************************************************)
BeginReverse ==
    \E s \in 1..NumSessions, r \in ReverseRequests : Begin(s, "reverse", r)

NextReverseRace ==
    \/ BeginDeposit
    \/ BeginReverse
    \/ InsertRow
    \/ Finish

SpecReverseRace == InitRace /\ [][NextReverseRace]_vars

(***************************************************************************)
(* SpecOrchestrator: the ledger changed through the orchestrator alone.     *)
(* The bank of SpecRace (two ACTIVE accounts, the first holding MaxAmount,  *)
(* the cash account) takes every request the schemas let through or         *)
(* reject, one call after another, and its accounts change status.          *)
(***************************************************************************)
NextOrchestrator ==
    \/ ChangeStatus(AccountStatusUpdates)
    \/ Deposit(DepositRequests)
    \/ Withdraw(WithdrawalRequests)
    \/ Transfer(TransferRequests)
    \/ Reverse

SpecOrchestrator == InitRace /\ [][NextOrchestrator]_vars

(***************************************************************************)
(* Properties.                                                              *)
(***************************************************************************)
EntryIds == Ids(ledger_entries)

\* the sum of the amounts of the entries in S
AmountOf(S) == SumOver([i \in EntryIds |-> ledger_entries[i].amount], S)

EntriesOfType(entry_type) ==
    {i \in EntryIds : ledger_entries[i].entry_type = entry_type}

EntriesOfPosting(u) ==
    {i \in EntryIds : ledger_entries[i].transaction_id = u}

PostingIds == {ledger_entries[i].transaction_id : i \in EntryIds}

ByClient(u) == u.by = "client"

\* C1: after any sequence of operations, accepted or rejected, of the whole
\* system, the DEBIT amounts of the entry log sum to the same as its CREDIT
\* amounts (and the empty log is balanced).
C1_LedgerBalanced ==
    AmountOf(EntriesOfType("DEBIT")) = AmountOf(EntriesOfType("CREDIT"))

\* a raw posting, a reversal and a closed account with entries are all in
\* the history
C1_Witness ==
    /\ \E i \in EntryIds : ByClient(ledger_entries[i].transaction_id)
    /\ \E t \in Ids(transactions) : transactions[t].status = "REVERSED"
    /\ \E a \in Ids(accounts) :
          /\ accounts[a].status = "CLOSED"
          /\ \E i \in EntryIds :
                ledger_entries[i].account_id = accounts[a].ledger_account_id

\* C4: in every reachable state, the entries of each ledger transaction id
\* in the log have DEBIT amounts summing to the same as their CREDIT amounts.
C4_EveryPostingBalanced ==
    \A u \in PostingIds :
        AmountOf(EntriesOfPosting(u) \cap EntriesOfType("DEBIT"))
            = AmountOf(EntriesOfPosting(u) \cap EntriesOfType("CREDIT"))

\* three postings are in the log: a raw one, a business one and its reversal
C4_Witness ==
    /\ \E u \in PostingIds : ByClient(u)
    /\ \E t \in Ids(transactions) :
          /\ transactions[t].transaction_type = "REVERSAL"
          /\ transactions[t].status = "COMPLETED"
          /\ EntriesOfPosting(transactions[t].ledger_transaction_id) # {}
          /\ EntriesOfPosting(
                transactions[transactions[t].reference_transaction_id]
                    .ledger_transaction_id) # {}

\* C2: for every idempotency key, at most one transactions row carries it,
\* and a deposit, withdraw, transfer or reverse called again with a key that
\* a row carries returns that row's id and changes nothing: no second row,
\* no ledger entry, whatever else the repeated request says.
C2_IdempotencyKeyUsedOnce ==
    /\ \A t1, t2 \in Ids(transactions) :
          transactions[t1].idempotency_key = transactions[t2].idempotency_key
              => t1 = t2
    /\ \A t \in Ids(transactions) :
          LET k == transactions[t].idempotency_key IN
          /\ \A r \in DepositRequests :
                r.idempotency_key = k /\ TransactionRequest(r)
                    => /\ deposit(DB, r) = Returned(DB, t)
                       /\ withdraw(DB, r) = Returned(DB, t)
          /\ \A r \in TransferRequests :
                r.idempotency_key = k /\ TransactionRequest(r)
                    => transfer(DB, r) = Returned(DB, t)
          /\ \A r \in ReverseRequests :
                r.idempotency_key = k
                    => reverse(DB, r.transaction_id, k) = Returned(DB, t)

\* both keys are used, one by a deposit that completed and one by a call
\* that failed after its row was written, and a deposit of another amount
\* is retried with the completed one's key
C2_Witness ==
    /\ \E t \in Ids(transactions) : transactions[t].status = "FAILED"
    /\ \E t \in Ids(transactions) :
          /\ transactions[t].transaction_type = "DEPOSIT"
          /\ transactions[t].status = "COMPLETED"
          /\ \E r \in DepositRequests :
                /\ TransactionRequest(r)
                /\ r.idempotency_key = transactions[t].idempotency_key
                /\ r.amount # transactions[t].amount
                /\ deposit(DB, r).ret = t

\* the requests the ledger API hands to post_entries
C3_Requests == {r \in PostEntriesRequests : PostEntriesRequest(r)}

\* the entries of a replayed request are not what post_entries would accept
C3_WouldBeRejected(r) ==
    \/ RequestTotal(r.entries, "DEBIT") # RequestTotal(r.entries, "CREDIT")
    \/ \E i \in DOMAIN r.entries :
          LET a == r.entries[i].account_id IN
          \/ a \notin Ids(ledger_accounts)
          \/ ~ledger_accounts[a].is_active
          \/ ledger_accounts[a].currency # r.currency

C3_ReplayReturnsStored ==
    \A r \in C3_Requests :
        EntriesOfPosting(r.transaction_id) # {}
            => LET out == post_entries(DB, r) IN
               /\ out.err = OK
               /\ out.db = DB
               /\ out.ret = EntriesOfPosting(r.transaction_id)

C3_StoredNeverChanges ==
    \A u \in PostingIds :
        /\ EntriesOfPosting(u)' = EntriesOfPosting(u)
        /\ \A i \in EntriesOfPosting(u) : ledger_entries'[i] = ledger_entries[i]

\* C3: post_entries called with a transaction id that already has entries
\* changes nothing and returns the stored entries of that id, without
\* validating the request again (it may be unbalanced or name missing,
\* inactive or other-currency accounts); and the stored entries of an id are
\* the ones its first call inserted: no later step adds to or alters them.
C3_PostEntriesReplayIsNoOp ==
    []C3_ReplayReturnsStored /\ [][C3_StoredNeverChanges]_vars

\* a posting is stored, its account has since been closed, and a request
\* with its id that would be rejected on its own merits is replayed
C3_Witness ==
    \E r \in C3_Requests :
        /\ EntriesOfPosting(r.transaction_id) # {}
        /\ \E i \in EntriesOfPosting(r.transaction_id) :
              ~ledger_accounts[ledger_entries[i].account_id].is_active
        /\ C3_WouldBeRejected(r)
        /\ post_entries(DB, r).err = OK

RECURSIVE C5_Net(_)
\* debits minus credits of a sequence of request entries
C5_Net(entries) ==
    IF entries = <<>> THEN 0
    ELSE (IF Head(entries).entry_type = "DEBIT" THEN Head(entries).amount
          ELSE 0 - Head(entries).amount) + C5_Net(Tail(entries))

\* the four checks of a posting, stated entry by entry
C5_ChecksPass(r) ==
    /\ \A i \in DOMAIN r.entries :
          LET a == r.entries[i].account_id IN
          /\ a \in Ids(ledger_accounts)
          /\ ledger_accounts[a].is_active
          /\ ledger_accounts[a].currency = r.currency
    /\ C5_Net(r.entries) = 0

\* C5: post_entries with a transaction id that has no entries yet is atomic:
\* when a check fails (an account missing, inactive or in another currency,
\* or debits differing from credits) it raises and leaves the database as it
\* was; when all pass, it appends every entry of the request, in order,
\* under the request's transaction id and currency, and changes nothing else.
C5_PostEntriesAtomic ==
    \A r \in C3_Requests :
        EntriesOfPosting(r.transaction_id) = {} =>
            LET out == post_entries(DB, r)
                n == Len(ledger_entries)
                log == out.db.ledger_entries
            IN IF C5_ChecksPass(r)
               THEN /\ out.err = OK
                    /\ Len(log) = n + Len(r.entries)
                    /\ SubSeq(log, 1, n) = ledger_entries
                    /\ \A i \in DOMAIN r.entries :
                          /\ log[n + i].transaction_id = r.transaction_id
                          /\ log[n + i].currency = r.currency
                          /\ log[n + i].account_id = r.entries[i].account_id
                          /\ log[n + i].entry_type = r.entries[i].entry_type
                          /\ log[n + i].amount = r.entries[i].amount
                    /\ out.ret = (n + 1)..(n + Len(r.entries))
                    /\ [out.db EXCEPT !.ledger_entries = ledger_entries] = DB
               ELSE out.err # OK /\ out.db = DB

\* a posting of three entries is in the log, an account has been closed,
\* and a new posting fails each kind of check
C5_Witness ==
    /\ \E u \in PostingIds : Cardinality(EntriesOfPosting(u)) = 3
    /\ \A e \in {"NotFound", "AccountInactive", "CurrencyMismatch", "Unbalanced"} :
          \E r \in C3_Requests :
              /\ EntriesOfPosting(r.transaction_id) = {}
              /\ post_entries(DB, r).err = e

RECURSIVE C6_RunningSum(_, _, _)
\* the balance of an account after the first n entries of the log
C6_RunningSum(n, account_id, debit_normal) ==
    IF n = 0 THEN 0
    ELSE LET e == ledger_entries[n]
             sign == IF (e.entry_type = "DEBIT") = debit_normal THEN 1 ELSE 0 - 1
         IN C6_RunningSum(n - 1, account_id, debit_normal)
                + (IF e.account_id = account_id THEN sign * e.amount ELSE 0)

\* C6: the balance the ledger reports for an account is the running sum over
\* the whole entry log, debits counting up and credits down for ASSET and
\* EXPENSE accounts and the other way round for LIABILITY, EQUITY and
\* REVENUE; it is 0 for an account with no entries; a missing account is
\* NotFound; and asking changes nothing.
C6_BalanceIsRunningSum ==
    \A a \in IdsOrMissing(ledger_accounts) :
        LET out == get_account_balance(DB, a) IN
        IF a \notin Ids(ledger_accounts)
        THEN out.err = "NotFound" /\ out.db = DB
        ELSE /\ out.err = OK
             /\ out.db = DB
             /\ out.ret = C6_RunningSum(Len(ledger_entries), a,
                              ledger_accounts[a].account_type
                                  \in {"ASSET", "EXPENSE"})
             /\ (\A i \in EntryIds : ledger_entries[i].account_id # a)
                    => out.ret = 0

\* an EXPENSE account and a LIABILITY account both have entries and a
\* non-zero balance
C6_Witness ==
    /\ \E a \in Ids(ledger_accounts) :
          /\ ledger_accounts[a].account_type = "EXPENSE"
          /\ get_account_balance(DB, a).ret > 0
    /\ \E a \in Ids(ledger_accounts) :
          /\ ledger_accounts[a].account_type = "LIABILITY"
          /\ get_account_balance(DB, a).ret > 0
          /\ Cardinality({i \in EntryIds : ledger_entries[i].account_id = a}) > 1

\* the legal (current, new) pairs of the account state machine
C7_LegalPairs ==
    {<<"PENDING", "ACTIVE">>, <<"PENDING", "CLOSED">>,
     <<"ACTIVE", "FROZEN">>, <<"ACTIVE", "BLOCKED">>, <<"ACTIVE", "CLOSED">>,
     <<"FROZEN", "ACTIVE">>, <<"FROZEN", "BLOCKED">>,
     <<"BLOCKED", "CLOSED">>}

C7_OnlyLegalPairsSucceed ==
    \A a \in Ids(accounts), new \in AccountStatus :
        LET out == change_status(DB, a, [new_status |-> new]) IN
        IF <<accounts[a].status, new>> \in C7_LegalPairs
        THEN out.err = OK /\ out.db.accounts[a].status = new
        ELSE out.err = "IllegalTransition" /\ out.db = DB

C7_StatusMovesAlongLegalPairs ==
    \A a \in Ids(accounts) :
        accounts'[a].status # accounts[a].status
            => <<accounts[a].status, accounts'[a].status>> \in C7_LegalPairs

\* C7: change_status succeeds exactly for the pairs PENDING->ACTIVE/CLOSED,
\* ACTIVE->FROZEN/BLOCKED/CLOSED, FROZEN->ACTIVE/BLOCKED and BLOCKED->CLOSED;
\* any other pair (out of CLOSED and self-transitions included) raises
\* IllegalTransition and leaves the whole database, so the account's status,
\* opened_at, closed_at and its ledger account's active flag, as it was; and
\* no step ever moves a status along another pair.
C7_ChangeStatusFollowsTable ==
    []C7_OnlyLegalPairsSucceed /\ [][C7_StatusMovesAlongLegalPairs]_vars

\* one account has been through ACTIVE and is CLOSED, another is FROZEN
C7_Witness ==
    /\ \E a \in Ids(accounts) :
          /\ accounts[a].status = "CLOSED"
          /\ accounts[a].opened_at # None
          /\ change_status(DB, a, [new_status |-> "ACTIVE"]).err
                 = "IllegalTransition"
    /\ \E a \in Ids(accounts) :
          /\ accounts[a].status = "FROZEN"
          /\ change_status(DB, a, [new_status |-> "CLOSED"]).err
                 = "IllegalTransition"

\* no transactions row carries the key
KeyUnused(k) == \A t \in Ids(transactions) : transactions[t].idempotency_key # k

\* the account exists, is ACTIVE and is in the currency
ActiveIn(a, currency) ==
    /\ a \in Ids(accounts)
    /\ accounts[a].status = "ACTIVE"
    /\ accounts[a].currency = currency

\* the call raised without writing a transactions row or a ledger entry
NoRowNoEntries(out) ==
    /\ out.err # OK
    /\ out.db.transactions = transactions
    /\ out.db.ledger_entries = ledger_entries

\* C8: a withdraw, or a transfer between two different accounts, with an
\* unused key and on ACTIVE accounts in the request currency, is accepted
\* when the amount is at most the source account's ledger balance, and is
\* rejected with InsufficientFunds, writing no transactions row and no
\* ledger entries, when the amount exceeds it.
C8_AcceptedIffWithinBalance ==
    /\ \A r \in WithdrawalRequests :
          /\ TransactionRequest(r)
          /\ KeyUnused(r.idempotency_key)
          /\ ActiveIn(r.account_id, r.currency)
          => LET out == withdraw(DB, r) IN
             IF r.amount <= get_balance(DB, r.account_id).ret
             THEN out.err = OK
             ELSE out.err = "InsufficientFunds" /\ NoRowNoEntries(out)
    /\ \A r \in TransferRequests :
          /\ TransactionRequest(r)
          /\ KeyUnused(r.idempotency_key)
          /\ r.source_account_id # r.destination_account_id
          /\ ActiveIn(r.source_account_id, r.currency)
          /\ ActiveIn(r.destination_account_id, r.currency)
          => LET out == transfer(DB, r) IN
             IF r.amount <= get_balance(DB, r.source_account_id).ret
             THEN out.err = OK
             ELSE out.err = "InsufficientFunds" /\ NoRowNoEntries(out)

\* the entries of the log on a ledger account
EntriesOn(ledger_account_id) ==
    {i \in EntryIds : ledger_entries[i].account_id = ledger_account_id}

C9_ClosedIsStampedAndInactive ==
    \A a \in Ids(accounts) :
        accounts[a].status = "CLOSED"
            => /\ accounts[a].closed_at # None
               /\ ~ledger_accounts[accounts[a].ledger_account_id].is_active

C9_ClosingStep ==
    \A a \in Ids(accounts) :
        /\ accounts[a].status # "CLOSED" /\ accounts'[a].status = "CLOSED"
           => /\ accounts'[a].closed_at = clock
              /\ ~ledger_accounts'[accounts[a].ledger_account_id].is_active
        /\ accounts[a].status = "CLOSED"
           => /\ accounts'[a] = accounts[a]
              /\ ~ledger_accounts'[accounts[a].ledger_account_id].is_active
              /\ EntriesOn(accounts[a].ledger_account_id)'
                     = EntriesOn(accounts[a].ledger_account_id)

\* C9: the step that moves an account into CLOSED sets closed_at to the
\* time of the call and makes the paired ledger account inactive; a CLOSED
\* account stays as it is, its ledger account stays inactive, and no later
\* step of any operation (raw posting, deposit, withdraw, transfer, reverse)
\* adds an entry on that ledger account.
C9_NoEntryAfterClosure ==
    []C9_ClosedIsStampedAndInactive /\ [][C9_ClosingStep]_vars

\* an account with a completed deposit on it has been closed, and the
\* reversal of that deposit and a raw posting on its ledger account are
\* both turned away
C9_Witness ==
    \E a \in Ids(accounts), t \in Ids(transactions), k \in IdempotencyKeys :
        /\ accounts[a].status = "CLOSED"
        /\ EntriesOn(accounts[a].ledger_account_id) # {}
        /\ transactions[t].status = "COMPLETED"
        /\ transactions[t].destination_account_id = a
        /\ KeyUnused(k)
        /\ reverse(DB, t, k).err = "AccountInactive"
        /\ \E r \in JournalRequests :
              /\ EntriesOfPosting(r.transaction_id) = {}
              /\ r.entries[1].account_id = accounts[a].ledger_account_id
              /\ post_entries(DB, r).err = "AccountInactive"

\* the account exists and its status is not ACTIVE
NotActive(a) == a \in Ids(accounts) /\ accounts[a].status # "ACTIVE"

\* a deposit or a withdraw on an account that is not ACTIVE
C10_OneAccountCase(r) ==
    /\ TransactionRequest(r)
    /\ KeyUnused(r.idempotency_key)
    /\ NotActive(r.account_id)

\* a transfer one of whose accounts is not ACTIVE
C10_TransferCase(r) ==
    /\ TransactionRequest(r)
    /\ KeyUnused(r.idempotency_key)
    /\ NotActive(r.source_account_id) \/ NotActive(r.destination_account_id)

\* the statement as first made: the error is AccountInactive in every case
C10_AlwaysAccountInactive ==
    /\ \A r \in DepositRequests : C10_OneAccountCase(r) =>
          /\ deposit(DB, r).err = "AccountInactive"
          /\ NoRowNoEntries(deposit(DB, r))
          /\ withdraw(DB, r).err = "AccountInactive"
          /\ NoRowNoEntries(withdraw(DB, r))
    /\ \A r \in TransferRequests : C10_TransferCase(r) =>
          /\ transfer(DB, r).err = "AccountInactive"
          /\ NoRowNoEntries(transfer(DB, r))

\* C10: a deposit, withdraw or transfer with an unused key, one of whose
\* accounts exists with a status other than ACTIVE, raises and writes
\* nothing at all.  The error is AccountInactive for deposit and withdraw.
\* For transfer it is the first failing check's: SameAccount when source
\* and destination are the same account, the source's NotFound when the
\* source does not exist, the source's CurrencyMismatch when the source is
\* ACTIVE in another currency, and AccountInactive otherwise.
C10_InactiveAccountRejected ==
    /\ \A r \in DepositRequests : C10_OneAccountCase(r) =>
          /\ deposit(DB, r) = Raised(DB, "AccountInactive")
          /\ withdraw(DB, r) = Raised(DB, "AccountInactive")
    /\ \A r \in TransferRequests : C10_TransferCase(r) =>
          transfer(DB, r) = Raised(DB,
              IF r.source_account_id = r.destination_account_id
                  THEN "SameAccount"
              ELSE IF r.source_account_id \notin Ids(accounts) THEN "NotFound"
              ELSE IF /\ accounts[r.source_account_id].status = "ACTIVE"
                      /\ accounts[r.source_account_id].currency # r.currency
                  THEN "CurrencyMismatch"
              ELSE "AccountInactive")

\* one account is ACTIVE with money on it and the other has been frozen; a
\* deposit in another currency to the frozen one, and transfers to it from
\* the funded one, from itself and from a missing account are turned away
C10_Witness ==
    \E a, b \in Ids(accounts), k \in IdempotencyKeys :
        /\ KeyUnused(k)
        /\ accounts[a].status = "ACTIVE"
        /\ get_balance(DB, a).ret > 0
        /\ accounts[b].status = "FROZEN"
        /\ deposit(DB, [account_id |-> b, amount |-> 1, currency |-> "EUR",
                        description |-> "Cash", idempotency_key |-> k]).err
               = "AccountInactive"
        /\ \E r \in TransferRequests :
              /\ C10_TransferCase(r)
              /\ r.source_account_id = a /\ r.destination_account_id = b
              /\ r.idempotency_key = k
              /\ transfer(DB, r).err = "AccountInactive"
        /\ \E r \in TransferRequests :
              /\ C10_TransferCase(r)
              /\ r.destination_account_id = b /\ r.idempotency_key = k
              /\ transfer(DB, r).err = "NotFound"

\* the total amount of the entries of S, in the log, on one ledger account
\* in one direction
AmountOn(log, S, ledger_account_id, entry_type) ==
    SumOver([i \in S |-> log[i].amount],
            {i \in S : /\ log[i].account_id = ledger_account_id
                       /\ log[i].entry_type = entry_type})

\* what the entries of S add to the balance of a ledger account
EffectOn(log, S, a) ==
    IF ledger_accounts[a].account_type \in {"ASSET", "EXPENSE"}
    THEN AmountOn(log, S, a, "DEBIT") - AmountOn(log, S, a, "CREDIT")
    ELSE AmountOn(log, S, a, "CREDIT") - AmountOn(log, S, a, "DEBIT")

CompletedReversalsOf(t) ==
    {x \in Ids(transactions) :
        /\ transactions[x].transaction_type = "REVERSAL"
        /\ transactions[x].status = "COMPLETED"
        /\ transactions[x].reference_transaction_id = t}

\* C12: a reverse with an unused key raises NotFound when the target row
\* does not exist and NotReversible when its status is anything but
\* COMPLETED (FAILED, REVERSED), in both cases leaving the database as it
\* was; and no transaction ever has more than one COMPLETED reversal.
C12_OnlyCompletedIsReversed ==
    /\ \A r \in ReversalRequests :
          KeyUnused(r.idempotency_key) =>
              LET out == reverse(DB, r.transaction_id, r.idempotency_key) IN
              IF r.transaction_id \notin Ids(transactions)
              THEN out.err = "NotFound" /\ out.db = DB
              ELSE transactions[r.transaction_id].status # "COMPLETED"
                       => out.err = "NotReversible" /\ out.db = DB
    /\ \A t \in Ids(transactions) : Cardinality(CompletedReversalsOf(t)) <= 1

\* a deposit has been reversed, another call has failed, and a further
\* reverse of either is asked for with a key not used before
C12_Witness ==
    \E k \in ReversalKeys, t, f \in Ids(transactions) :
        /\ KeyUnused(k)
        /\ transactions[t].status = "REVERSED"
        /\ CompletedReversalsOf(t) # {}
        /\ reverse(DB, t, k).err = "NotReversible"
        /\ transactions[f].status = "FAILED"
        /\ reverse(DB, f, k).err = "NotReversible"

\* the balance of a ledger account after a call, and before it (0 for an
\* account the call created)
BalanceAfter(out, a) == get_account_balance(out.db, a).ret

BalanceBefore(a) ==
    IF a \in Ids(ledger_accounts) THEN get_account_balance(DB, a).ret ELSE 0

\* the entries a call appended, without their descriptions
Appended(out) ==
    {[transaction_id |-> out.db.ledger_entries[i].transaction_id,
      account_id |-> out.db.ledger_entries[i].account_id,
      entry_type |-> out.db.ledger_entries[i].entry_type,
      amount |-> out.db.ledger_entries[i].amount] :
        i \in (Len(ledger_entries) + 1)..Len(out.db.ledger_entries)}

\* the ledger account with the cash account's code after a call
CashAfter(out) ==
    CHOOSE c \in LedgerAccountByCode(out.db, CASH_ACCOUNT_CODE) : TRUE

\* C13: a deposit of A into customer account C that succeeds appends
\* exactly two entries under one new ledger transaction id, DEBIT
\* BANK-CASH-001 A and CREDIT C's ledger account A; C's balance and the
\* cash account's balance each go up by A and no other balance changes.
C13_DepositRaisesBothBalances ==
    \A r \in DepositRequests :
        LET out == deposit(DB, r) IN
        TransactionRequest(r) /\ KeyUnused(r.idempotency_key) /\ out.err = OK =>
            LET u == out.db.transactions[out.ret].ledger_transaction_id
                c == accounts[r.account_id].ledger_account_id
                cash == CashAfter(out)
            IN /\ u \notin PostingIds
               /\ Len(out.db.ledger_entries) = Len(ledger_entries) + 2
               /\ SubSeq(out.db.ledger_entries, 1, Len(ledger_entries))
                      = ledger_entries
               /\ Appended(out)
                      = {[transaction_id |-> u, account_id |-> cash,
                          entry_type |-> "DEBIT", amount |-> r.amount],
                         [transaction_id |-> u, account_id |-> c,
                          entry_type |-> "CREDIT", amount |-> r.amount]}
               /\ \A a \in Ids(out.db.ledger_accounts) :
                     BalanceAfter(out, a)
                         = BalanceBefore(a)
                               + (IF a \in {c, cash} THEN r.amount ELSE 0)

\* C14: a withdrawal of A from customer account C that succeeds appends
\* exactly two entries under one new ledger transaction id, DEBIT C's
\* ledger account A and CREDIT BANK-CASH-001 A; C's balance and the cash
\* account's balance each go down by A and no other balance changes.
C14_WithdrawLowersBothBalances ==
    \A r \in WithdrawalRequests :
        LET out == withdraw(DB, r) IN
        TransactionRequest(r) /\ KeyUnused(r.idempotency_key) /\ out.err = OK =>
            LET u == out.db.transactions[out.ret].ledger_transaction_id
                c == accounts[r.account_id].ledger_account_id
                cash == CashAfter(out)
            IN /\ u \notin PostingIds
               /\ Len(out.db.ledger_entries) = Len(ledger_entries) + 2
               /\ SubSeq(out.db.ledger_entries, 1, Len(ledger_entries))
                      = ledger_entries
               /\ Appended(out)
                      = {[transaction_id |-> u, account_id |-> c,
                          entry_type |-> "DEBIT", amount |-> r.amount],
                         [transaction_id |-> u, account_id |-> cash,
                          entry_type |-> "CREDIT", amount |-> r.amount]}
               /\ \A a \in Ids(out.db.ledger_accounts) :
                     BalanceAfter(out, a)
                         = BalanceBefore(a)
                               - (IF a \in {c, cash} THEN r.amount ELSE 0)

\* C15: a transfer of A from S to D that succeeds appends exactly two
\* entries under one new ledger transaction id, DEBIT S's ledger account A
\* and CREDIT D's ledger account A; S's balance goes down by A, D's goes up
\* by A, their sum stays, and the balance of BANK-CASH-001 and of every
\* other ledger account stays as it was.
C15_TransferMovesBetweenTheTwo ==
    \A r \in TransferRequests :
        LET out == transfer(DB, r) IN
        TransactionRequest(r) /\ KeyUnused(r.idempotency_key) /\ out.err = OK =>
            LET u == out.db.transactions[out.ret].ledger_transaction_id
                S == accounts[r.source_account_id].ledger_account_id
                D == accounts[r.destination_account_id].ledger_account_id
            IN /\ u \notin PostingIds
               /\ Len(out.db.ledger_entries) = Len(ledger_entries) + 2
               /\ SubSeq(out.db.ledger_entries, 1, Len(ledger_entries))
                      = ledger_entries
               /\ Appended(out)
                      = {[transaction_id |-> u, account_id |-> S,
                          entry_type |-> "DEBIT", amount |-> r.amount],
                         [transaction_id |-> u, account_id |-> D,
                          entry_type |-> "CREDIT", amount |-> r.amount]}
               /\ out.db.ledger_accounts = ledger_accounts
               /\ S # D
               /\ BalanceAfter(out, S) = BalanceBefore(S) - r.amount
               /\ BalanceAfter(out, D) = BalanceBefore(D) + r.amount
               /\ BalanceAfter(out, S) + BalanceAfter(out, D)
                      = BalanceBefore(S) + BalanceBefore(D)
               /\ \A a \in Ids(ledger_accounts) \ {S, D} :
                     BalanceAfter(out, a) = BalanceBefore(a)

\* the whole balance of one account, which the cash account mirrors, can be
\* transferred to the other
C15_Witness ==
    \E r \in TransferRequests :
        /\ TransactionRequest(r)
        /\ KeyUnused(r.idempotency_key)
        /\ transfer(DB, r).err = OK
        /\ r.amount = get_balance(DB, r.source_account_id).ret
        /\ \E c \in LedgerAccountByCode(DB, CASH_ACCOUNT_CODE) :
              get_account_balance(DB, c).ret = r.amount

\* C16: a transfer with an unused key whose source and destination are the
\* same id raises SameAccount and leaves the database as it was, whether
\* the account is missing, in whatever status, funded or not.
C16_SameAccountRejectedFirst ==
    \A r \in TransferRequests :
        /\ TransactionRequest(r)
        /\ KeyUnused(r.idempotency_key)
        /\ r.source_account_id = r.destination_account_id
        => LET out == transfer(DB, r) IN
           out.err = "SameAccount" /\ out.db = DB

\* one account is ACTIVE and funded, the other is not ACTIVE, and a
\* transfer to itself is asked of each and of an account that is missing
C16_Witness ==
    \E k \in IdempotencyKeys, a, b \in Ids(accounts) :
        /\ KeyUnused(k)
        /\ accounts[a].status = "ACTIVE"
        /\ get_balance(DB, a).ret >= 1
        /\ accounts[b].status = "BLOCKED"
        /\ \A x \in {a, b, Len(accounts) + 1} :
              transfer(DB, [source_account_id |-> x,
                            destination_account_id |-> x, amount |-> 1,
                            currency |-> "USD", description |-> "Cash",
                            idempotency_key |-> k]).err = "SameAccount"

C17_OpenedAtKept ==
    \A a \in Ids(accounts) :
        accounts[a].opened_at # None
            => accounts'[a].opened_at = accounts[a].opened_at

\* C17: opened_at is set on an account's first entry into ACTIVE only: once
\* it is set, no step, a re-entry into ACTIVE from FROZEN included, changes
\* it.
C17_OpenedAtSetOnce == [][C17_OpenedAtKept]_vars

\* the customer accounts a transactions row names
Participants(t) ==
    {transactions[t].source_account_id,
     transactions[t].destination_account_id} \ {None}

\* C18: a reverse, with an unused key, of a COMPLETED transaction one of
\* whose customer accounts is not ACTIVE now raises, posts no ledger
\* entries and leaves the original COMPLETED.
C18_ReverseValidatesAccounts ==
    \A r \in ReverseRequests :
        /\ KeyUnused(r.idempotency_key)
        /\ r.transaction_id \in Ids(transactions)
        /\ transactions[r.transaction_id].status = "COMPLETED"
        /\ \E a \in Participants(r.transaction_id) : NotActive(a)
        => LET out == reverse(DB, r.transaction_id, r.idempotency_key) IN
           /\ out.err # OK
           /\ out.db.ledger_entries = ledger_entries
           /\ out.db.transactions[r.transaction_id].status = "COMPLETED"

\* what can be wrong with a posting
C19_Missing(r) ==
    \E i \in DOMAIN r.entries : r.entries[i].account_id \notin Ids(ledger_accounts)

C19_Inactive(r) ==
    \E i \in DOMAIN r.entries :
        /\ r.entries[i].account_id \in Ids(ledger_accounts)
        /\ ~ledger_accounts[r.entries[i].account_id].is_active

C19_OtherCurrency(r) ==
    \E i \in DOMAIN r.entries :
        /\ r.entries[i].account_id \in Ids(ledger_accounts)
        /\ ledger_accounts[r.entries[i].account_id].currency # r.currency

C19_Unbalanced(r) == C5_Net(r.entries) # 0

\* C19: post_entries with a transaction id that has no entries yet raises
\* the first violated precondition in the order: an account missing
\* (NotFound), an account inactive (AccountInactive), an account in
\* another currency than the posting (CurrencyMismatch), debits differing
\* from credits (Unbalanced); and succeeds when none is violated.
C19_FirstViolatedCheckIsRaised ==
    \A r \in C3_Requests :
        EntriesOfPosting(r.transaction_id) = {} =>
            post_entries(DB, r).err
                = IF C19_Missing(r) THEN "NotFound"
                  ELSE IF C19_Inactive(r) THEN "AccountInactive"
                  ELSE IF C19_OtherCurrency(r) THEN "CurrencyMismatch"
                  ELSE IF C19_Unbalanced(r) THEN "Unbalanced"
                  ELSE OK

\* postings that violate all four preconditions, the last three, and the
\* last two are asked for
C19_Witness ==
    /\ \E r \in C3_Requests :
          /\ EntriesOfPosting(r.transaction_id) = {}
          /\ C19_Missing(r) /\ C19_Inactive(r)
          /\ C19_OtherCurrency(r) /\ C19_Unbalanced(r)
          /\ post_entries(DB, r).err = "NotFound"
    /\ \E r \in C3_Requests :
          /\ EntriesOfPosting(r.transaction_id) = {}
          /\ ~C19_Missing(r) /\ C19_Inactive(r)
          /\ C19_OtherCurrency(r) /\ C19_Unbalanced(r)
          /\ post_entries(DB, r).err = "AccountInactive"
    /\ \E r \in C3_Requests :
          /\ EntriesOfPosting(r.transaction_id) = {}
          /\ ~C19_Missing(r) /\ ~C19_Inactive(r)
          /\ C19_OtherCurrency(r) /\ C19_Unbalanced(r)
          /\ post_entries(DB, r).err = "CurrencyMismatch"

\* the endpoint keeps what the service call wrote when the call returned
\* and nothing of it when the call raised
C20_Durable(out, response) ==
    IF out.err = OK THEN response.db = out.db /\ response.status_code = 201
    ELSE response.db = DB /\ response.status_code = 400

C20_EndpointsCommitOrRollBack ==
    /\ \A r \in DepositRequests : TransactionRequest(r) =>
          /\ C20_Durable(deposit(DB, r), api_deposit(DB, r))
          /\ C20_Durable(withdraw(DB, r), api_withdraw(DB, r))
    /\ \A r \in TransferRequests : TransactionRequest(r) =>
          C20_Durable(transfer(DB, r), api_transfer(DB, r))
    /\ \A r \in ReverseRequests :
          C20_Durable(reverse(DB, r.transaction_id, r.idempotency_key),
                      api_reverse_transaction(DB, r.transaction_id,
                                              r.idempotency_key))

\* nothing of a failed request is in the committed database
C20_NoTraceOfFailures ==
    /\ \A t \in Ids(transactions) :
          transactions[t].status \notin {"FAILED", "PROCESSING"}
    /\ LedgerAccountByCode(DB, CASH_ACCOUNT_CODE) # {}
          => \E t \in Ids(transactions) :
                /\ transactions[t].transaction_type = "DEPOSIT"
                /\ transactions[t].status \in {"COMPLETED", "REVERSED"}
    /\ \A i \in EntryIds :
          \E t \in Ids(transactions) :
              /\ transactions[t].ledger_transaction_id
                     = ledger_entries[i].transaction_id
              /\ transactions[t].status \in {"COMPLETED", "REVERSED"}

\* C20: through the HTTP endpoints, what a service call wrote becomes
\* durable exactly when the call returns; when it raises, the committed
\* database after the request is the one before it.  So the committed
\* database never holds a FAILED or PROCESSING row, a cash account created
\* by a request that failed, or an entry of a request that failed.
C20_CommittedOnlyOnSuccess ==
    C20_EndpointsCommitOrRollBack /\ C20_NoTraceOfFailures

\* an account is ACTIVE and empty and there is no cash account yet: a
\* withdrawal would create the cash account and then fail for lack of
\* funds, and a deposit without description would leave its row FAILED,
\* in their sessions; both requests leave the committed database as it is
C20_Witness ==
    \E w, d \in DepositRequests :
        /\ TransactionRequest(w) /\ TransactionRequest(d)
        /\ withdraw(DB, w).err = "InsufficientFunds"
        /\ LedgerAccountByCode(DB, CASH_ACCOUNT_CODE) = {}
        /\ LedgerAccountByCode(withdraw(DB, w).db, CASH_ACCOUNT_CODE) # {}
        /\ api_withdraw(DB, w).db = DB
        /\ deposit(DB, d).err = "ValidationError"
        /\ \E t \in Ids(deposit(DB, d).db.transactions) :
              deposit(DB, d).db.transactions[t].status = "FAILED"
        /\ api_deposit(DB, d).db = DB

C21_EntriesKept ==
    \A i \in EntryIds :
        /\ i \in Ids(ledger_entries')
        /\ ledger_entries'[i] = ledger_entries[i]

\* C21: the entry log only grows at its end: no step of any operation
\* (raw posting, deposit, withdraw, transfer, reverse, status change)
\* removes an entry or changes its transaction id, account, direction,
\* amount, currency or description; a reverse leaves the entries of the
\* transaction it reverses as they were.
C21_EntryLogAppendOnly == [][C21_EntriesKept]_vars

\* a transaction has been reversed: its two entries and the two of its
\* reversal are in the log, beside those of a raw posting
C21_Witness ==
    \E t, r \in Ids(transactions) :
        /\ transactions[t].status = "REVERSED"
        /\ transactions[r].reference_transaction_id = t
        /\ transactions[r].status = "COMPLETED"
        /\ Cardinality(EntriesOfPosting(transactions[t].ledger_transaction_id)) = 2
        /\ Cardinality(EntriesOfPosting(transactions[r].ledger_transaction_id)) = 2
        /\ \E u \in PostingIds : ByClient(u)

\* a deposit or withdrawal with an unused key on an ACTIVE account in the
\* request's currency, while BANK-CASH-001 exists in another currency
C25_OtherCurrencyCase(r) ==
    /\ TransactionRequest(r)
    /\ KeyUnused(r.idempotency_key)
    /\ ActiveIn(r.account_id, r.currency)
    /\ \E c \in LedgerAccountByCode(DB, CASH_ACCOUNT_CODE) :
          ledger_accounts[c].currency # r.currency

\* the call left its row FAILED with the error's name and nothing else
C25_RowLeftFailed(out, r, err) ==
    /\ out.err = err
    /\ out.db.ledger_accounts = ledger_accounts
    /\ out.db.ledger_entries = ledger_entries
    /\ Len(out.db.transactions) = Len(transactions) + 1
    /\ SubSeq(out.db.transactions, 1, Len(transactions)) = transactions
    /\ LET row == out.db.transactions[Len(transactions) + 1] IN
       /\ row.idempotency_key = r.idempotency_key
       /\ row.status = "FAILED"
       /\ row.error_message = err

\* the statement as first made: the call fails with Conflict
C25_FailsWithConflict ==
    \A r \in DepositRequests : C25_OtherCurrencyCase(r) =>
        /\ deposit(DB, r).err = "Conflict"
        /\ withdraw(DB, r).err = "Conflict"

\* C25: once BANK-CASH-001 exists in one currency, a deposit or withdrawal
\* with an unused key on an ACTIVE account in another currency finds the
\* cash account by its code, creates no ledger account and posts no entry.
\* The deposit raises the posting's CurrencyMismatch (ValidationError when
\* its description is empty) and leaves its row FAILED; the withdrawal
\* raises InsufficientFunds, writing nothing, when the amount exceeds the
\* balance, and otherwise fails as the deposit does.  Neither raises
\* Conflict.
C25_FailsWithCurrencyMismatch ==
    \A r \in DepositRequests : C25_OtherCurrencyCase(r) =>
        LET err == IF r.description = "" THEN "ValidationError"
                   ELSE "CurrencyMismatch"
        IN /\ C25_RowLeftFailed(deposit(DB, r), r, err)
           /\ IF r.amount > get_balance(DB, r.account_id).ret
              THEN withdraw(DB, r) = Raised(DB, "InsufficientFunds")
              ELSE C25_RowLeftFailed(withdraw(DB, r), r, err)

\* a deposit has created the cash account in one currency, and the account
\* in the other currency, funded by a raw posting, asks for a deposit and
\* for a withdrawal it has the balance for
C25_Witness ==
    \E r \in DepositRequests, t \in Ids(transactions) :
        /\ C25_OtherCurrencyCase(r)
        /\ r.description # ""
        /\ transactions[t].transaction_type = "DEPOSIT"
        /\ transactions[t].status = "COMPLETED"
        /\ r.amount <= get_balance(DB, r.account_id).ret
        /\ deposit(DB, r).err = "CurrencyMismatch"
        /\ withdraw(DB, r).err = "CurrencyMismatch"

\* the codes in the chart of accounts
C26_Codes == {ledger_accounts[a].code : a \in Ids(ledger_accounts)}

C26_DuplicateCodeIsConflict ==
    \A r \in LedgerAccountCreates(C26_Codes \cup {CASH_ACCOUNT_CODE, "GL-100"},
                                  AccountType) :
        LET out == create_account(DB, r) IN
        IF r.code \in C26_Codes
        THEN out.err = "Conflict" /\ out.db = DB
        ELSE /\ out.err = OK
             /\ out.db.ledger_accounts
                    = Append(ledger_accounts,
                             [code |-> r.code, account_type |-> r.account_type,
                              currency |-> r.currency, is_active |-> TRUE])

C26_CodesUnique ==
    /\ \A a, b \in Ids(ledger_accounts) :
          ledger_accounts[a].code = ledger_accounts[b].code => a = b
    /\ Cardinality(LedgerAccountByCode(DB, CASH_ACCOUNT_CODE)) <= 1

\* C26: create_account raises Conflict when a ledger account with the code
\* exists, whatever the type and currency asked for, and then leaves the
\* database as it was; with a new code it appends the account.  So no two
\* ledger accounts share a code in any reachable state, and at most one
\* carries BANK-CASH-001, whether the API or a deposit created it.
C26_LedgerCodesUnique == C26_DuplicateCodeIsConflict /\ C26_CodesUnique

\* a deposit has created the cash account, and the ledger API is asked for
\* its code again, as a LIABILITY in another currency
C26_Witness ==
    \E c \in LedgerAccountByCode(DB, CASH_ACCOUNT_CODE) :
        /\ ledger_accounts[c].account_type = "ASSET"
        /\ EntriesOn(c) # {}
        /\ create_account(DB, [code |-> CASH_ACCOUNT_CODE,
                               account_type |-> "LIABILITY",
                               currency |-> "EUR"]).err = "Conflict"
        /\ \E t \in Ids(transactions) : transactions[t].status = "REVERSED"

\* the body has an amount that is not positive, or lacks a direction
C27_IllFormed(r) ==
    \/ \E i \in DOMAIN r.entries : r.entries[i].amount <= 0
    \/ \A i \in DOMAIN r.entries : r.entries[i].entry_type = "DEBIT"
    \/ \A i \in DOMAIN r.entries : r.entries[i].entry_type = "CREDIT"

C27_IllFormedRejected ==
    /\ \A r \in ShapedPostings :
          C27_IllFormed(r) => api_post_entries(DB, r) = Unprocessable(DB)
    /\ \A r \in ShapedDeposits :
          r.amount <= 0 => /\ api_deposit(DB, r) = Unprocessable(DB)
                           /\ api_withdraw(DB, r) = Unprocessable(DB)
    /\ \A r \in ShapedTransfers :
          r.amount <= 0 => api_transfer(DB, r) = Unprocessable(DB)

C27_LogWellFormed ==
    /\ \A i \in EntryIds : ledger_entries[i].amount > 0
    /\ \A u \in PostingIds :
          /\ Cardinality(EntriesOfPosting(u)) >= 2
          /\ EntriesOfPosting(u) \cap EntriesOfType("DEBIT") # {}
          /\ EntriesOfPosting(u) \cap EntriesOfType("CREDIT") # {}

\* C27: a posting whose body has an amount of 0 or less, only DEBITs or
\* only CREDITs (a single entry included), and a deposit, withdrawal or
\* transfer with an amount of 0 or less, is turned away before the service
\* runs and writes nothing; so every entry of the log has an amount above
\* 0 and every posting in it has at least two entries, a DEBIT and a
\* CREDIT among them.
C27_PostingsWellFormed == C27_IllFormedRejected /\ C27_LogWellFormed

\* a raw posting and a deposit are in the log, and a posting that balances
\* a DEBIT of 0 with a CREDIT of 0 on active accounts under a new id is
\* turned away
C27_Witness ==
    /\ \E u \in PostingIds : ByClient(u)
    /\ \E t \in Ids(transactions) : transactions[t].status = "COMPLETED"
    /\ \E r \in ShapedPostings :
          /\ Len(r.entries) = 2
          /\ r.entries[1].entry_type = "DEBIT" /\ r.entries[1].amount = 0
          /\ r.entries[2].entry_type = "CREDIT" /\ r.entries[2].amount = 0
          /\ r.entries[1].account_id # r.entries[2].account_id
          /\ EntriesOfPosting(r.transaction_id) = {}
          /\ \A i \in 1..2 :
                /\ ledger_accounts[r.entries[i].account_id].is_active
                /\ ledger_accounts[r.entries[i].account_id].currency = "USD"
          /\ api_post_entries(DB, r).status_code = 422

\* the call appended one PENDING account and its ledger account, and
\* nothing else changed
C28_Opened(out, r) ==
    /\ out.err = OK
    /\ out.ret = Len(accounts) + 1
    /\ out.db.accounts
           = Append(accounts,
                    [customer_id |-> r.customer_id,
                     ledger_account_id |-> Len(ledger_accounts) + 1,
                     account_type |-> r.account_type,
                     status |-> "PENDING",
                     currency |-> r.currency,
                     opened_at |-> None,
                     closed_at |-> None])
    /\ out.db.ledger_accounts
           = Append(ledger_accounts,
                    [code |-> LedgerCode(r.account_type, r.customer_id),
                     account_type |-> "LIABILITY",
                     currency |-> r.currency,
                     is_active |-> TRUE])
    /\ get_account_balance(out.db, Len(ledger_accounts) + 1).ret = 0
    /\ [out.db EXCEPT !.accounts = accounts,
                      !.ledger_accounts = ledger_accounts] = DB

\* the statement as first made: for an existing active customer the
\* account is opened in every case
C28_AlwaysOpens ==
    \A r \in AccountOpens :
        IF r.customer_id \notin Ids(customers)
        THEN open_account(DB, r) = Raised(DB, "NotFound")
        ELSE customers[r.customer_id].is_active
                 => C28_Opened(open_account(DB, r), r)

\* C28: open_account for a missing customer raises NotFound; for an
\* existing active customer who has an account of the product type, so
\* that the derived ledger code is taken, it raises Conflict; both leave
\* the database as it was.  Otherwise it appends an account in PENDING with
\* opened_at and closed_at unset, paired with a new active LIABILITY ledger
\* account in the request's currency whose balance is 0.
C28_OpensUnlessCodeTaken ==
    \A r \in AccountOpens :
        LET out == open_account(DB, r) IN
        IF r.customer_id \notin Ids(customers) THEN out = Raised(DB, "NotFound")
        ELSE customers[r.customer_id].is_active =>
             IF LedgerAccountByCode(DB, LedgerCode(r.account_type, r.customer_id))
                    # {}
             THEN out = Raised(DB, "Conflict")
             ELSE C28_Opened(out, r)

\* the customer's CHECKING account has been closed: a SAVINGS account in
\* EUR can be opened, a CHECKING account cannot, and a customer that does
\* not exist gets neither
C28_Witness ==
    \E c \in Ids(customers), a \in Ids(accounts) :
        /\ accounts[a].customer_id = c
        /\ accounts[a].account_type = "CHECKING"
        /\ accounts[a].status = "CLOSED"
        /\ open_account(DB, [customer_id |-> c, account_type |-> "SAVINGS",
                             currency |-> "EUR"]).err = OK
        /\ open_account(DB, [customer_id |-> c, account_type |-> "CHECKING",
                             currency |-> "EUR"]).err = "Conflict"
        /\ open_account(DB, [customer_id |-> Len(customers) + 1,
                             account_type |-> "SAVINGS",
                             currency |-> "EUR"]).err = "NotFound"

\* entries newest first, and among those created at the same time the
\* higher id first
C29_ByTimeThenId(entries) ==
    \A i, j \in DOMAIN entries :
        i < j =>
            \/ ledger_entries[entries[i]].created_at
                   > ledger_entries[entries[j]].created_at
            \/ /\ ledger_entries[entries[i]].created_at
                      = ledger_entries[entries[j]].created_at
               /\ entries[i] > entries[j]

\* C29: get_entries_by_account returns the account's entries newest first
\* by creation time, and entries created at the same time in the order of
\* their ids, so that the result is one determined sequence.
C29_NewestFirstThenById ==
    \A a \in Ids(ledger_accounts) :
        /\ Cardinality(get_entries_by_account(DB, a)) = 1
        /\ \A entries \in get_entries_by_account(DB, a) : C29_ByTimeThenId(entries)

\* C30: deposit, withdraw, transfer and reverse probe for the idempotency
\* key before every other check.  Called with the key of a stored row, of
\* whatever type and status (a FAILED row stays FAILED), each returns that
\* row, raises nothing and leaves the database as it was, even when the
\* request is of another operation, names other, missing or no longer
\* ACTIVE accounts or another amount, has the same source and destination,
\* exceeds the balance, or asks to reverse a row that is missing or not
\* COMPLETED.
C30_ProbePrecedesEveryCheck ==
    \A t \in Ids(transactions) :
        LET stored(out) == /\ out.err = OK
                           /\ out.ret = t
                           /\ out.db = DB
                           /\ out.db.transactions[t].status = transactions[t].status
            mine(r) == r.idempotency_key = transactions[t].idempotency_key
        IN /\ \A r \in DepositRequests :
                 mine(r) /\ TransactionRequest(r)
                     => stored(deposit(DB, r)) /\ stored(withdraw(DB, r))
           /\ \A r \in TransferRequests :
                 mine(r) /\ TransactionRequest(r) => stored(transfer(DB, r))
           /\ \A r \in ReverseRequests :
                 mine(r) => stored(reverse(DB, r.transaction_id, r.idempotency_key))

\* a row is FAILED; with its key come a deposit to an account that is not
\* ACTIVE, a withdrawal above the balance, a transfer from an account to
\* itself, and a reverse of the FAILED row and of a missing one, and each
\* returns the FAILED row
C30_Witness ==
    \E f \in Ids(transactions), a, b \in Ids(accounts) :
        LET k == transactions[f].idempotency_key IN
        /\ transactions[f].status = "FAILED"
        /\ NotActive(a)
        /\ accounts[b].status = "ACTIVE"
        /\ deposit(DB, [account_id |-> a, amount |-> 1, currency |-> "USD",
                        description |-> "Cash", idempotency_key |-> k]).ret = f
        /\ get_balance(DB, b).ret < MaxAmount
        /\ withdraw(DB, [account_id |-> b, amount |-> MaxAmount,
                         currency |-> "USD", description |-> "Cash",
                         idempotency_key |-> k]).ret = f
        /\ transfer(DB, [source_account_id |-> b, destination_account_id |-> b,
                         amount |-> 1, currency |-> "EUR",
                         description |-> "Cash", idempotency_key |-> k]).ret = f
        /\ reverse(DB, f, k).ret = f
        /\ reverse(DB, Len(transactions) + 1, k).ret = f

\* the ledger account a withdrawal or transfer takes the money from
C22_Source(request, op) ==
    accounts[IF op = "withdraw" THEN request.account_id
             ELSE request.source_account_id].ledger_account_id

\* C22: the balance is read once, before the transactions row is written.
\* A withdrawal or transfer whose balance check has passed completes when
\* its session goes on, and lowers the source's balance by its amount,
\* whatever other sessions have committed since the check, also when the
\* balance no longer covers the amount; so two requests in flight at the
\* same time, each within the balance and together above it, both complete
\* and leave the balance negative.
C22_BalanceCheckedOnlyOnce ==
    \A s \in 1..NumSessions :
        (/\ sessions[s].pc = "inserted"
         /\ sessions[s].op \in {"withdraw", "transfer"})
            => LET r == sessions[s].request
                   out == Writes(sessions[s].op, DB, r)
                   source == C22_Source(r, sessions[s].op)
               IN /\ out.err = OK
                  /\ get_account_balance(out.db, source).ret
                         = get_account_balance(DB, source).ret - r.amount

\* two withdrawals of the first account, which held MaxAmount and got no
\* further deposit, have both completed, each within MaxAmount and
\* together above it, and the account's balance is below zero
C22_Witness ==
    \E t1, t2 \in Ids(transactions) :
        /\ t1 # t2
        /\ \A t \in {t1, t2} :
              /\ transactions[t].transaction_type = "WITHDRAWAL"
              /\ transactions[t].status = "COMPLETED"
              /\ transactions[t].source_account_id = 1
              /\ transactions[t].amount <= MaxAmount
        /\ transactions[t1].amount + transactions[t2].amount > MaxAmount
        /\ Cardinality({t \in Ids(transactions) :
                            transactions[t].transaction_type = "DEPOSIT"}) = 1
        /\ get_balance(DB, 1).ret < 0

C23_OneRowPerKey ==
    /\ \A t1, t2 \in Ids(transactions) :
          transactions[t1].idempotency_key = transactions[t2].idempotency_key
              => t1 = t2
    /\ \A t1, t2 \in Ids(transactions) :
          transactions[t1].ledger_transaction_id
              = transactions[t2].ledger_transaction_id => t1 = t2
    /\ \A t \in Ids(transactions) :
          /\ transactions[t].status = "COMPLETED"
          /\ Cardinality(EntriesOfPosting(transactions[t].ledger_transaction_id))
                 = 2
    /\ \A i \in EntryIds :
          \E t \in Ids(transactions) :
              transactions[t].ledger_transaction_id = ledger_entries[i].transaction_id
    /\ \A s, o \in 1..NumSessions :
          sessions[s].pc = "inserted" /\ sessions[o].pc = "inserted"
              /\ sessions[s].request.idempotency_key
                     = sessions[o].request.idempotency_key
              => s = o

\* a session whose row's key has been committed by another gets a 500 and
\* writes nothing
C23_LoserFails ==
    \A s \in 1..NumSessions :
        /\ sessions[s].pc = "checked"
        /\ ~KeyUnused(sessions[s].request.idempotency_key)
        /\ sessions'[s] # sessions[s]
        => sessions'[s] = Idle(500) /\ DB' = DB

\* C23: with requests carrying the same idempotency key in flight at the
\* same time, in every interleaving the committed transactions table has
\* at most one row per key, every row is COMPLETED with the two entries of
\* its one posting, and every entry belongs to a row; the session that
\* comes to insert its row after another has committed the key fails (a
\* 500: the unique index turns the INSERT away) and writes nothing.
C23_SameKeyCommitsOnce == []C23_OneRowPerKey /\ [][C23_LoserFails]_vars

\* both sessions passed the probe with the same key; one has committed its
\* row and postings, the other has been turned away
C23_Witness ==
    \E s, o \in 1..NumSessions, t \in Ids(transactions) :
        /\ s # o
        /\ sessions[s] = Idle(500)
        /\ sessions[o] = Idle(201)
        /\ transactions[t].idempotency_key \in IdempotencyKeys
        /\ transactions[t].status = "COMPLETED"
        /\ Len(transactions) = 2

\* C24: with PostEntries requests carrying the same transaction id in
\* flight at the same time, in every interleaving the entries of the
\* posting are inserted once: the entry log holds one copy, the two entries
\* of the request, for every transaction id.
C24_PostedOnce ==
    \A u \in PostingIds : Cardinality(EntriesOfPosting(u)) = 2

\* the rows an outcome has added to the transactions table
RowsAdded(out) == Ids(out.db.transactions) \ Ids(transactions)

\* the outcomes of every call a client can make in this state
C31_Outcomes ==
    {deposit(DB, r) : r \in {x \in DepositRequests : TransactionRequest(x)}}
    \cup {withdraw(DB, r) : r \in {x \in WithdrawalRequests : TransactionRequest(x)}}
    \cup {transfer(DB, r) : r \in {x \in TransferRequests : TransactionRequest(x)}}
    \cup {reverse(DB, r.transaction_id, r.idempotency_key) : r \in ReverseRequests}

\* between calls no row is PROCESSING or PENDING
C31_Settled ==
    \A t \in Ids(transactions) :
        transactions[t].status \in {"COMPLETED", "FAILED", "REVERSED"}

\* a row is created in PROCESSING
C31_CreatedInProcessing ==
    \A t \in Ids(transactions) :
        LET db == AddTransaction(DB, transactions[t])
        IN db.transactions[Len(db.transactions)].status = "PROCESSING"

\* a call that adds a row adds one, COMPLETED when the call returns and
\* FAILED when it raises
C31_ReturnsCompletedRaisesFailed ==
    \A out \in C31_Outcomes :
        /\ Cardinality(RowsAdded(out)) <= 1
        /\ \A t \in RowsAdded(out) :
              out.db.transactions[t].status
                  = IF out.err = OK THEN "COMPLETED" ELSE "FAILED"

\* the only status change of an existing row is COMPLETED to REVERSED, made
\* by the call that adds the COMPLETED REVERSAL row pointing to it
C31_OnlyCompletedToReversed ==
    /\ Len(transactions') >= Len(transactions)
    /\ \A t \in Ids(transactions) :
          transactions'[t].status # transactions[t].status
              => /\ transactions[t].status = "COMPLETED"
                 /\ transactions'[t].status = "REVERSED"
                 /\ Len(transactions') = Len(transactions) + 1
                 /\ LET reversal == transactions'[Len(transactions')]
                    IN /\ reversal.transaction_type = "REVERSAL"
                       /\ reversal.status = "COMPLETED"
                       /\ reversal.reference_transaction_id = t

\* C31: a transactions row is created in PROCESSING; when the call that
\* created it returns the row is COMPLETED and when it raises the row is
\* FAILED, so that between calls no row is PROCESSING or PENDING; after
\* that the only status change is COMPLETED to REVERSED by a successful
\* reverse of the row, and FAILED and REVERSED rows keep their status.
C31_StatusLifecycle ==
    /\ [](C31_Settled /\ C31_CreatedInProcessing
            /\ C31_ReturnsCompletedRaisesFailed)
    /\ [][C31_OnlyCompletedToReversed]_vars

\* the opening deposit has been reversed by a COMPLETED reversal, and
\* another call has left its row FAILED
C31_Witness ==
    \E t, r, f \in Ids(transactions) :
        /\ transactions[t].status = "REVERSED"
        /\ transactions[r].status = "COMPLETED"
        /\ transactions[r].reference_transaction_id = t
        /\ transactions[f].status = "FAILED"

\* C32: in every state and for every transactions row, error_message is
\* set if and only if the status is FAILED, and completed_at is set if and
\* only if the status is COMPLETED or REVERSED.
C32_MessageIffFailedStampIffCompleted ==
    \A t \in Ids(transactions) :
        /\ transactions[t].error_message # NoMessage
               <=> transactions[t].status = "FAILED"
        /\ transactions[t].completed_at # None
               <=> transactions[t].status \in {"COMPLETED", "REVERSED"}

\* a FAILED row carrying its message beside a REVERSED row and the
\* COMPLETED reversal, both stamped
C32_Witness ==
    \E f, t, r \in Ids(transactions) :
        /\ transactions[f].status = "FAILED"
        /\ transactions[f].error_message # NoMessage
        /\ transactions[f].completed_at = None
        /\ transactions[t].status = "REVERSED"
        /\ transactions[t].completed_at # None
        /\ transactions[r].transaction_type = "REVERSAL"
        /\ transactions[r].completed_at # None

\* the fields of a row other than its status
C33_Created(row) ==
    <<row.idempotency_key, row.transaction_type, row.source_account_id,
      row.destination_account_id, row.amount, row.currency,
      row.reference_transaction_id, row.ledger_transaction_id>>

\* no step changes, of an existing row, anything it was created with; a
\* step that changes its status changes nothing else of it
C33_RowsKept ==
    \A t \in Ids(transactions) :
        /\ t \in Ids(transactions')
        /\ C33_Created(transactions'[t]) = C33_Created(transactions[t])
        /\ transactions'[t] = [transactions[t] EXCEPT !.status = transactions'[t].status]

\* the calls a client can make with a key that a row carries
C33_Replays ==
    {deposit(DB, r) : r \in {x \in DepositRequests :
        TransactionRequest(x) /\ ~KeyUnused(x.idempotency_key)}}
    \cup {withdraw(DB, r) : r \in {x \in WithdrawalRequests :
        TransactionRequest(x) /\ ~KeyUnused(x.idempotency_key)}}
    \cup {transfer(DB, r) : r \in {x \in TransferRequests :
        TransactionRequest(x) /\ ~KeyUnused(x.idempotency_key)}}
    \cup {reverse(DB, r.transaction_id, r.idempotency_key) :
             r \in {x \in ReverseRequests : ~KeyUnused(x.idempotency_key)}}

C33_ReplayChangesNothing ==
    \A out \in C33_Replays : out.err = OK /\ out.db = DB

\* C33: once a transactions row is created no operation changes its
\* idempotency key, type, source or destination account, amount, currency,
\* reference_transaction_id or ledger_transaction_id; reverse changes
\* nothing of the original but its status, and a replay with a used key
\* changes nothing at all.
C33_CreateOnceStatusOnly ==
    []C33_ReplayChangesNothing /\ [][C33_RowsKept]_vars

\* a reversed row beside its reversal, with every client key used, so that
\* any further call is a replay
C33_Witness ==
    /\ \E t, r \in Ids(transactions) :
          /\ transactions[t].status = "REVERSED"
          /\ transactions[r].reference_transaction_id = t
    /\ \A k \in IdempotencyKeys : ~KeyUnused(k)

\* C34: after any sequence of deposits, withdrawals, transfers, reversals
\* and status changes made one after another, the ledger balance of every
\* customer account is at least 0.
C34_BalancesNonNegative ==
    \A a \in Ids(accounts) :
        get_account_balance(DB, accounts[a].ledger_account_id).ret >= 0

\* the balance of BANK-CASH-001, 0 while the account does not exist
C35_Cash ==
    LET cash == LedgerAccountByCode(DB, CASH_ACCOUNT_CODE)
    IN IF cash = {} THEN 0
       ELSE get_account_balance(DB, CHOOSE c \in cash : TRUE).ret

\* the sum of the balances of the customer accounts' ledger accounts
C35_CustomerBalances ==
    SumOver([a \in Ids(accounts) |->
                get_account_balance(DB, accounts[a].ledger_account_id).ret],
            Ids(accounts))

\* C35: when the ledger is changed through the orchestrator alone (deposit,
\* withdraw, transfer, reverse; no raw posting and no ledger account made
\* through the ledger API), in every state the balance of BANK-CASH-001
\* equals the sum of the balances of all customer ledger accounts.
C35_CashEqualsCustomerBalances == C35_Cash = C35_CustomerBalances

\* after the opening deposit, a transfer and a withdrawal have completed
\* and money is left in the bank
C35_Witness ==
    /\ \E t, w \in Ids(transactions) :
          /\ transactions[t].transaction_type = "TRANSFER"
          /\ transactions[t].status = "COMPLETED"
          /\ transactions[w].transaction_type = "WITHDRAWAL"
          /\ transactions[w].status = "COMPLETED"
    /\ C35_Cash > 0

\* C36: in every state the ledger account paired with a customer account
\* is inactive if and only if the account is CLOSED, and closed_at is set
\* if and only if the account is CLOSED; so an ACTIVE account always has
\* an active ledger account.
C36_InactiveIffClosed ==
    \A a \in Ids(accounts) :
        /\ ~ledger_accounts[accounts[a].ledger_account_id].is_active
               <=> accounts[a].status = "CLOSED"
        /\ accounts[a].closed_at # None <=> accounts[a].status = "CLOSED"
        /\ accounts[a].status = "ACTIVE"
               => ledger_accounts[accounts[a].ledger_account_id].is_active

\* one account has been closed while another is ACTIVE
C36_Witness ==
    \E a, b \in Ids(accounts) :
        /\ accounts[a].status = "CLOSED"
        /\ ~ledger_accounts[accounts[a].ledger_account_id].is_active
        /\ accounts[b].status = "ACTIVE"
        /\ ledger_accounts[accounts[b].ledger_account_id].is_active

\* the entries posted under the row's ledger_transaction_id
C37_EntriesOf(t) == EntriesOfPosting(transactions[t].ledger_transaction_id)

\* C37: in every state a transactions row has ledger entries under its
\* ledger_transaction_id if and only if it is COMPLETED or REVERSED; a
\* FAILED or PROCESSING row has none; and every COMPLETED or REVERSED
\* deposit, withdrawal or transfer has exactly two, one DEBIT and one
\* CREDIT, each of the row's amount.
C37_EntriesIffCompleted ==
    \A t \in Ids(transactions) :
        /\ C37_EntriesOf(t) # {}
               <=> transactions[t].status \in {"COMPLETED", "REVERSED"}
        /\ transactions[t].status \in {"FAILED", "PROCESSING"}
               => C37_EntriesOf(t) = {}
        /\ (/\ transactions[t].status \in {"COMPLETED", "REVERSED"}
            /\ transactions[t].transaction_type
                   \in {"DEPOSIT", "WITHDRAWAL", "TRANSFER"})
               => /\ Cardinality(C37_EntriesOf(t)) = 2
                  /\ Cardinality(C37_EntriesOf(t) \cap EntriesOfType("DEBIT")) = 1
                  /\ Cardinality(C37_EntriesOf(t) \cap EntriesOfType("CREDIT")) = 1
                  /\ \A i \in C37_EntriesOf(t) :
                        ledger_entries[i].amount = transactions[t].amount

\* a FAILED row without entries beside a COMPLETED withdrawal and the
\* opening deposit, each with its two entries
C37_Witness ==
    \E f, w \in Ids(transactions) :
        /\ transactions[f].status = "FAILED"
        /\ C37_EntriesOf(f) = {}
        /\ transactions[w].transaction_type = "WITHDRAWAL"
        /\ transactions[w].status = "COMPLETED"
        /\ Cardinality(C37_EntriesOf(w)) = 2

\* the REVERSAL rows that point to a transaction
C38_ReversalsOf(t) ==
    {x \in Ids(transactions) :
        /\ transactions[x].transaction_type = "REVERSAL"
        /\ transactions[x].reference_transaction_id = t}

\* C38: in every state every REVERSED transaction is referenced by exactly
\* one REVERSAL transaction, and that reversal is COMPLETED, also after a
\* COMPLETED REVERSAL has itself been reversed.
C38_ReversalIsCompleted ==
    \A t \in Ids(transactions) :
        transactions[t].status = "REVERSED"
            => /\ Cardinality(C38_ReversalsOf(t)) = 1
               /\ \A r \in C38_ReversalsOf(t) : transactions[r].status = "COMPLETED"


\* C39: with reverse requests for the same COMPLETED transaction, carrying
\* different idempotency keys, in flight at the same time, in every
\* interleaving at most one of them posts offsetting entries and
\* completes: no transaction has two COMPLETED reversals.
C39_ReversedAtMostOnce ==
    \A t \in Ids(transactions) : Cardinality(CompletedReversalsOf(t)) <= 1

\* the customer's accounts of a product type, whatever their currency and
\* status
C40_Held(customer_id, account_type) ==
    {a \in Ids(accounts) :
        /\ accounts[a].customer_id = customer_id
        /\ accounts[a].account_type = account_type}

====
